---- MODULE Spec2Model ----
(***************************************************************************)
(* TLI Tracker: the event-extraction and state-tracking engine.            *)
(*                                                                         *)
(*   app/log_parser.py      LogParser       (records of a chunk -> events) *)
(*   app/bag_state.py       BagState        (slots, baseline, diff)        *)
(*   app/price_manager.py   PriceManager    (price table, estimator)       *)
(*   app/session_manager.py SessionManager  (session files)                *)
(*   app/tracker.py         Tracker         (map / session state machine)  *)
(*   app/log_watcher.py     LogFileHandler  (chunk delivery, its lock)     *)
(*   app/qt_app.py          heartbeat timer (periodic snapshot)            *)
(*                                                                         *)
(* A log chunk is a sequence of records in text order.  Python objects     *)
(* that are shared by reference (MapRun) live in a heap indexed by object  *)
(* id, so that aliasing between state.current_map and session.maps is      *)
(* visible.  Money is counted in integers; the sampled prices are          *)
(* multiples of 8 so that the 12.5% auction fee is exact.                  *)
(***************************************************************************)
EXTENDS Integers, Sequences, FiniteSets, TLC

\* Optional values: None is the empty tuple, a present value v is <<v>>.
NoValue == <<>>

Some(v) == <<v>>

ValueOf(o) == o[1]

\* A missing timestamp (ended_at = None).
NoTime == 0 - 1

(***************************************************************************)
(* Bounds of the model.                                                    *)
(***************************************************************************)
MaxClock == 1
MaxRuns == 2
MaxMaps == 2
MaxThreads == 2
MaxUiCalls == 1
MaxDrops == 1
MaxSessions == 2

(***************************************************************************)
(* Program constants.                                                      *)
(***************************************************************************)
MIN_INIT_ITEMS == 20
FE == "100300"
FIXED_PRICES == (FE :> 1)
REFUGE_SCENE == "01SD/XZ_YuJinZhiXiBiNanSuo200"
MaxSamples == 30
TaxNum == 7
TaxDen == 8

(***************************************************************************)
(* Generic helpers: Python dict operations on TLA+ functions.              *)
(***************************************************************************)
EmptyMap == [x \in {} |-> 0]

Put(f, k, v) == [x \in (DOMAIN f) \cup {k} |-> IF x = k THEN v ELSE f[x]]

Get(f, k, d) == IF k \in DOMAIN f THEN f[k] ELSE d

Remove(f, k) == [x \in (DOMAIN f) \ {k} |-> f[x]]

RECURSIVE SumOver(_, _)
SumOver(f, keys) ==
    IF keys = {} THEN 0
    ELSE LET k == CHOOSE x \in keys : TRUE
         IN f[k] + SumOver(f, keys \ {k})

RECURSIVE SeqSum(_)
SeqSum(s) == IF s = <<>> THEN 0 ELSE Head(s) + SeqSum(Tail(s))

Min(a, b) == IF a <= b THEN a ELSE b

Abs(x) == IF x < 0 THEN 0 - x ELSE x

(***************************************************************************)
(* The item universe and the external item catalog (data/item_ids.json).   *)
(***************************************************************************)
ItemC == "5028"
ItemGear == "9001"
Items == {FE, ItemC, ItemGear}

ItemCatalog == (FE :> "Flame Elementium") @@ (ItemC :> "Netherrealm Resonance")

\* storage.get_item_name: the catalog name, or "Unknown (<id>)".
get_item_name(item_id) ==
    IF item_id \in DOMAIN ItemCatalog
    THEN <<ItemCatalog[item_id]>>
    ELSE <<"Unknown (", item_id, ")">>

\* A catalog check that recognizes every item.
NeverUnknownName(name) == FALSE

\* item_name.startswith("Unknown (")
IsUnknownName(name) == name[1] = "Unknown ("

(***************************************************************************)
(* BagState (app/bag_state.py).  A bag is [slots, baseline, initialized];  *)
(* a slot key "page:slot:item" is the tuple <<page, slot, item>>.          *)
(***************************************************************************)
SlotKey(e) == <<e.page_id, e.slot_id, e.item_id>>

\* slot_key.split(":")[2]
KeyItem(k) == k[3]

EmptyBag == [slots |-> EmptyMap, baseline |-> EmptyMap, initialized |-> FALSE]

\* Per-item totals of the slots (the loop over self.slots.items()).
SlotTotals(slots) ==
    [i \in {KeyItem(k) : k \in DOMAIN slots} |->
        SumOver(slots, {k \in DOMAIN slots : KeyItem(k) = i})]

RECURSIVE InitLoop(_, _, _)
InitLoop(items, slots, baseline) ==
    IF items = <<>> THEN [slots |-> slots, baseline |-> baseline]
    ELSE LET item == Head(items)
         IN InitLoop(Tail(items),
                     Put(slots, SlotKey(item), item.quantity),
                     Put(baseline, item.item_id,
                         Get(baseline, item.item_id, 0) + item.quantity))

\* BagState.initialize: the new bag; the return value is BagInitializeCount.
BagInitialize(items) ==
    LET r == InitLoop(items, EmptyMap, EmptyMap)
    IN [slots |-> r.slots, baseline |-> r.baseline, initialized |-> TRUE]

BagInitializeCount(items) == Cardinality(DOMAIN BagInitialize(items).baseline)

\* BagState.reset_baseline
BagResetBaselineSkipped(bag) == bag

\* A reset that adds the slot totals to the baseline it finds.
BagResetBaselineUncleared(bag) ==
    [bag EXCEPT !.baseline =
        [i \in (DOMAIN bag.baseline) \cup DOMAIN SlotTotals(bag.slots) |->
            Get(bag.baseline, i, 0) + Get(SlotTotals(bag.slots), i, 0)]]

BagResetBaseline(bag) == [bag EXCEPT !.baseline = SlotTotals(bag.slots)]

RECURSIVE ApplyMods(_, _)
ApplyMods(mods, slots) ==
    IF mods = <<>> THEN slots
    ELSE ApplyMods(Tail(mods), Put(slots, SlotKey(Head(mods)), Head(mods).quantity))

\* A diff that leaves the baseline where it was.
BagProcessModificationsStaleBaseline(bag, mods) ==
    IF ~bag.initialized THEN [bag |-> bag, changes |-> EmptyMap]
    ELSE LET slots == ApplyMods(mods, bag.slots)
             current_totals == SlotTotals(slots)
             all_item_ids == (DOMAIN current_totals) \cup (DOMAIN bag.baseline)
             diff(i) == Get(current_totals, i, 0) - Get(bag.baseline, i, 0)
             changed == {i \in all_item_ids : diff(i) # 0}
         IN [bag |-> [slots |-> slots, baseline |-> bag.baseline,
                      initialized |-> TRUE],
             changes |-> [i \in changed |-> diff(i)]]

\* A diff computed also for a bag that was never initialized.
BagProcessModificationsUnguarded(bag, mods) ==
    LET slots == ApplyMods(mods, bag.slots)
        current_totals == SlotTotals(slots)
        all_item_ids == (DOMAIN current_totals) \cup (DOMAIN bag.baseline)
        diff(i) == Get(current_totals, i, 0) - Get(bag.baseline, i, 0)
        changed == {i \in all_item_ids : diff(i) # 0}
    IN [bag |-> [slots |-> slots,
                 baseline |-> [i \in (DOMAIN bag.baseline) \cup changed |->
                                  IF i \in changed
                                  THEN Get(current_totals, i, 0)
                                  ELSE bag.baseline[i]],
                 initialized |-> bag.initialized],
        changes |-> [i \in changed |-> diff(i)]]

\* BagState.process_modifications: [bag |-> the bag afterwards,
\* changes |-> item -> nonzero delta].
BagProcessModifications(bag, mods) ==
    IF ~bag.initialized THEN [bag |-> bag, changes |-> EmptyMap]
    ELSE LET slots == ApplyMods(mods, bag.slots)
             current_totals == SlotTotals(slots)
             all_item_ids == (DOMAIN current_totals) \cup (DOMAIN bag.baseline)
             diff(i) == Get(current_totals, i, 0) - Get(bag.baseline, i, 0)
             changed == {i \in all_item_ids : diff(i) # 0}
         IN [bag |-> [slots |-> slots,
                      baseline |-> [i \in (DOMAIN bag.baseline) \cup changed |->
                                       IF i \in changed
                                       THEN Get(current_totals, i, 0)
                                       ELSE bag.baseline[i]],
                      initialized |-> TRUE],
             changes |-> [i \in changed |-> diff(i)]]

\* BagState.clear
BagClear == EmptyBag

(***************************************************************************)
(* PriceManager (app/price_manager.py).  The price table maps an item id   *)
(* to its stored price; an item without a record is not in the domain.     *)
(***************************************************************************)
\* PriceManager._load on an empty prices.json: only the pinned prices.
PricesLoad == FIXED_PRICES

\* PriceManager.get_price
get_price(prices, item_id) ==
    IF item_id \in DOMAIN prices THEN Some(prices[item_id]) ELSE NoValue

\* PriceManager.get_price_with_tax: price * (1 - tax_rate), tax_rate = 1/8.
get_price_with_tax(prices, config, item_id) ==
    LET price == get_price(prices, item_id)
    IN IF price = NoValue THEN NoValue
       ELSE IF config.tax_enabled /\ item_id # FE
            THEN Some((ValueOf(price) * TaxNum) \div TaxDen)
            ELSE price

\* A set_price that also overwrites a pinned price.
set_price_unpinned(prices, item_id, price) == Put(prices, item_id, price)

\* PriceManager.set_price (round(price, 4) is the identity on integers).
set_price(prices, item_id, price) ==
    IF item_id \in DOMAIN FIXED_PRICES THEN prices
    ELSE Put(prices, item_id, price)

\* PriceManager.remove_price
remove_price(prices, item_id) ==
    IF item_id \in DOMAIN prices THEN Remove(prices, item_id) ELSE prices

\* PriceManager.clear
clear(prices) == EmptyMap

\* PriceManager._load: the saved table with the pinned prices set.  Every
\* change of the table is saved, so the file holds the table in memory.
load(prices) ==
    [i \in (DOMAIN prices) \cup (DOMAIN FIXED_PRICES) |->
        IF i \in DOMAIN FIXED_PRICES THEN FIXED_PRICES[i] ELSE prices[i]]

RECURSIVE Insert(_, _)
Insert(x, s) ==
    IF s = <<>> THEN <<x>>
    ELSE IF x <= Head(s) THEN <<x>> \o s
    ELSE <<Head(s)>> \o Insert(x, Tail(s))

RECURSIVE Sorted(_)
Sorted(s) == IF s = <<>> THEN <<>> ELSE Insert(Head(s), Sorted(Tail(s)))

\* The median of a sorted list, as update_from_search computes it.
Median(sorted) ==
    LET n == Len(sorted)
        idx == n \div 2
    IN IF n % 2 = 0 THEN (sorted[idx] + sorted[idx + 1]) \div 2
       ELSE sorted[idx + 1]

\* An exact quotient num / den (den > 0), for the floats the price
\* arithmetic produces from whole-number samples.
Ratio(num, den) == [num |-> num, den |-> den]

\* The whole part of a quotient (the quotient itself when den divides num).
Whole(q) == q.num \div q.den

\* Twice the median of a sorted list: the sum of the two middle entries
\* for an even length, twice the middle entry for an odd one.
Median2(sorted) ==
    LET n == Len(sorted)
        idx == n \div 2
    IN IF n % 2 = 0 THEN sorted[idx] + sorted[idx + 1]
       ELSE 2 * sorted[idx + 1]

\* The plain mean of a batch, nothing filtered.
avg_price_unfiltered(samples) == Ratio(SeqSum(samples), Len(samples))

\* A filter that retains only the samples equal to the median.
filtered_prices_median_only(samples) ==
    LET sorted_prices == Sorted(samples)
        m2 == Median2(sorted_prices)
        AtMedian(p) == 2 * p = m2
    IN SelectSeq(sorted_prices, AtMedian)

\* filtered_prices of update_from_search, lines 133-165, for a batch of at
\* least 5 whole-number samples.  With m2 = 2 * median, a deviation d2 = 2 *
\* |p - median| and mad4 = 4 * mad, the tests of the code read
\*   abs(p - median) <= median * 0.05      as  20 * d2 <= m2,
\*   abs(p - median) <= 0.01               as  50 * d2 <= 1,
\*   0.6745 * abs(p - median) / mad <= 3.5 as  13490 * d2 <= 35000 * mad4.
filtered_prices(samples) ==
    LET sorted_prices == Sorted(samples)
        n == Len(sorted_prices)
        m2 == Median2(sorted_prices)
        d2(p) == Abs(2 * p - m2)
        deviations == [i \in 1..n |-> d2(sorted_prices[i])]
        mad4 == Median2(Sorted(deviations))
        KeepFlat(p) ==
            IF m2 > 0 THEN 20 * d2(p) <= m2 ELSE 50 * d2(p) <= 1
        KeepZ(p) == 13490 * d2(p) <= 35000 * mad4
    IN IF mad4 = 0 THEN SelectSeq(sorted_prices, KeepFlat)
       ELSE SelectSeq(sorted_prices, KeepZ)

\* avg_price of update_from_search, lines 117-173, for a non-empty batch of
\* whole-number samples: the median below 5 samples, else the mean of the
\* filtered samples, or the median when the filter left none.
avg_price(samples) ==
    LET n == Len(samples)
        m2 == Median2(Sorted(samples))
    IN IF n < 5 THEN Ratio(m2, 2)
       ELSE IF filtered_prices(samples) # <<>>
            THEN Ratio(SeqSum(filtered_prices(samples)),
                       Len(filtered_prices(samples)))
            ELSE Ratio(m2, 2)

\* round(price, 4), in ten-thousandths: the nearest one.
round4(q) == (2 * 10000 * q.num + q.den) \div (2 * q.den)

\* The value update_from_search returns, lines 111-176.
SearchResult(item_id, samples) ==
    IF item_id \in DOMAIN FIXED_PRICES THEN Ratio(FIXED_PRICES[item_id], 1)
    ELSE IF samples = <<>> THEN Ratio(0, 1)
    ELSE avg_price(samples)

\* The value update_from_search computes for a non-pinned item and a
\* non-empty batch (the batches the engine is run on are those whose
\* results are whole numbers).
Estimate(samples) == Whole(avg_price(samples))

\* PriceManager.update_from_search: [prices |-> the table afterwards,
\* result |-> the returned price].
update_from_search(prices, item_id, samples) ==
    IF item_id \in DOMAIN FIXED_PRICES
    THEN [prices |-> prices, result |-> FIXED_PRICES[item_id]]
    ELSE IF samples = <<>> THEN [prices |-> prices, result |-> 0]
    ELSE [prices |-> set_price(prices, item_id, Estimate(samples)),
          result |-> Estimate(samples)]

(***************************************************************************)
(* LogParser (app/log_parser.py) over the records of a chunk.              *)
(***************************************************************************)
SceneMap == "02KD/KD_YuanSuKuangDong000"
SceneLeague == "YJ_XieDuYuZuo200"
Scenes == {REFUGE_SCENE, SceneMap, SceneLeague}

\* REFUGE_SCENE in scene
ContainsRefuge(scene) == scene = REFUGE_SCENE

\* The league-zone check of the destination scene.
IsLeagueScene(scene) == scene = SceneLeague

RECURSIVE SelectKind(_, _)
SelectKind(chunk, kind) ==
    IF chunk = <<>> THEN <<>>
    ELSE IF Head(chunk).kind = kind
         THEN <<Head(chunk)>> \o SelectKind(Tail(chunk), kind)
         ELSE SelectKind(Tail(chunk), kind)

BagModifyEvent(r) ==
    [page_id |-> r.page_id, slot_id |-> r.slot_id,
     item_id |-> r.item_id, quantity |-> r.quantity]

\* LogParser.parse_bag_modifications
parse_bag_modifications(chunk) ==
    LET m == SelectKind(chunk, "Modfy")
    IN [i \in 1..Len(m) |-> BagModifyEvent(m[i])]

\* LogParser.parse_bag_init
parse_bag_init(chunk) ==
    LET m == SelectKind(chunk, "InitBagData")
    IN [i \in 1..Len(m) |-> BagModifyEvent(m[i])]

\* MapChangeEvent: entering, and the league-zone flag riding along.
MapChangeEvent(entering, next_scene) ==
    [entering |-> entering, is_league_zone |-> IsLeagueScene(next_scene)]

\* A classification that looks at the scene left only.
parse_map_change_last_only(chunk) ==
    LET m == SelectKind(chunk, "Scene")
    IN IF m = <<>> THEN NoValue
       ELSE Some(MapChangeEvent(ContainsRefuge(m[1].last), m[1].next))

\* A parser decided by the last scene-change record of the chunk.
parse_map_change_latest(chunk) ==
    LET m == SelectKind(chunk, "Scene")
    IN IF m = <<>> THEN NoValue
       ELSE LET last_scene == m[Len(m)].last
                next_scene == m[Len(m)].next
            IN IF ContainsRefuge(last_scene) /\ ~ContainsRefuge(next_scene)
               THEN Some(MapChangeEvent(TRUE, next_scene))
               ELSE IF ~ContainsRefuge(last_scene) /\ ContainsRefuge(next_scene)
               THEN Some(MapChangeEvent(FALSE, next_scene))
               ELSE NoValue

\* LogParser.parse_map_change: decided by the first scene-change record;
\* the result is an optional event.
parse_map_change(chunk) ==
    LET m == SelectKind(chunk, "Scene")
    IN IF m = <<>> THEN NoValue
       ELSE LET last_scene == m[1].last
                next_scene == m[1].next
            IN IF ContainsRefuge(last_scene) /\ ~ContainsRefuge(next_scene)
               THEN Some(MapChangeEvent(TRUE, next_scene))
               ELSE IF ~ContainsRefuge(last_scene) /\ ContainsRefuge(next_scene)
               THEN Some(MapChangeEvent(FALSE, next_scene))
               ELSE NoValue

RECURSIVE PriceEvents(_)
PriceEvents(m) ==
    IF m = <<>> THEN <<>>
    ELSE LET r == Head(m)
         IN IF r.item_id = FE \/ r.prices = <<>>
            THEN PriceEvents(Tail(m))
            ELSE <<[item_id |-> r.item_id,
                    prices |-> SubSeq(r.prices, 1, Min(Len(r.prices), MaxSamples))]>>
                 \o PriceEvents(Tail(m))

\* The records PATTERN_PRICE_HEADER matches: a SynId with a "+refer [item]".
PriceHeaderKinds == {"Price", "PriceRequest"}

\* The price values of the data block after a header: everything
\* PATTERN_PRICE_VALUE matches up to the next header or the end of the text.
RECURSIVE DataBlock(_)
DataBlock(rest) ==
    IF rest = <<>> THEN <<>>
    ELSE IF Head(rest).kind \in PriceHeaderKinds THEN <<>>
    ELSE (IF Head(rest).kind = "PriceResponse" THEN Head(rest).prices ELSE <<>>)
         \o DataBlock(Tail(rest))

\* Each header of the chunk with the prices of its data block.
RECURSIVE PriceHeaders(_)
PriceHeaders(chunk) ==
    IF chunk = <<>> THEN <<>>
    ELSE IF Head(chunk).kind \in PriceHeaderKinds
         THEN <<[item_id |-> Head(chunk).item_id,
                 prices |-> Head(chunk).prices \o DataBlock(Tail(chunk))]>>
              \o PriceHeaders(Tail(chunk))
         ELSE PriceHeaders(Tail(chunk))

\* LogParser.parse_price_search
parse_price_search(chunk) == PriceEvents(PriceHeaders(chunk))

(***************************************************************************)
(* Data models (app/models.py).                                            *)
(***************************************************************************)
DisplayMode == {"value", "items"}

Drop(item_id, quantity, timestamp, value) ==
    [item_id |-> item_id, quantity |-> quantity,
     timestamp |-> timestamp, value |-> value]

MapRun(started_at, is_league_zone) ==
    [started_at |-> started_at, ended_at |-> NoTime, drops |-> <<>>,
     is_league_zone |-> is_league_zone, investment |-> 0]

Session(id, started_at) ==
    [id |-> id, started_at |-> started_at, ended_at |-> NoTime, maps |-> <<>>]

\* current_session = None
NoSession == Session(0, NoTime)

\* current_map = None
NoMap == 0

TrackerState ==
    [is_initialized |-> FALSE, is_in_map |-> FALSE, current_map |-> NoMap,
     current_session |-> NoSession, display_mode |-> "value"]

\* MapRun.total_value: sum(d.value or 0 for d in self.drops)
RECURSIVE run_total_value(_)
run_total_value(run) ==
    IF run.drops = <<>> THEN 0
    ELSE LET d == Head(run.drops)
         IN (IF d.value = NoValue \/ ValueOf(d.value) = 0 THEN 0
             ELSE ValueOf(d.value))
            + run_total_value([run EXCEPT !.drops = Tail(@)])

\* A count of items that adds the consumed quantities too.
RECURSIVE run_total_items_signed(_)
run_total_items_signed(run) ==
    IF run.drops = <<>> THEN 0
    ELSE Head(run.drops).quantity
         + run_total_items_signed([run EXCEPT !.drops = Tail(@)])

\* MapRun.total_items: sum(d.quantity for d in self.drops if d.quantity > 0)
RECURSIVE run_total_items(_)
run_total_items(run) ==
    IF run.drops = <<>> THEN 0
    ELSE (IF Head(run.drops).quantity > 0 THEN Head(run.drops).quantity ELSE 0)
         + run_total_items([run EXCEPT !.drops = Tail(@)])

\* MapRun.net_value
run_net_value(run) == run_total_value(run) - run.investment

\* Session.total_value, over the MapRun objects of session.maps.
session_total_value(session, heap) ==
    SeqSum([i \in 1..Len(session.maps) |-> run_total_value(heap[session.maps[i]])])

\* Session.total_investment
session_total_investment(session, heap) ==
    SeqSum([i \in 1..Len(session.maps) |-> heap[session.maps[i]].investment])

\* Session.total_items
session_total_items(session, heap) ==
    SeqSum([i \in 1..Len(session.maps) |-> run_total_items(heap[session.maps[i]])])

\* A count of every closed map, league zones included.
map_count_with_league(session, heap) ==
    Len(SelectSeq(session.maps, LAMBDA r : heap[r].ended_at # NoTime))

\* Session.map_count
map_count(session, heap) ==
    Len(SelectSeq(session.maps,
                  LAMBDA r : heap[r].ended_at # NoTime
                             /\ ~heap[r].is_league_zone))

\* Session.to_dict: the session with its maps written out by value.
SessionToDict(session, heap) ==
    [id |-> session.id, started_at |-> session.started_at,
     ended_at |-> session.ended_at,
     maps |-> [i \in 1..Len(session.maps) |-> heap[session.maps[i]]]]

\* Session.all_drops, as references <<MapRun object, index>> to Drop objects.
RECURSIVE AllDropRefs(_, _)
AllDropRefs(maps, heap) ==
    IF maps = <<>> THEN <<>>
    ELSE [k \in 1..Len(heap[Head(maps)].drops) |-> <<Head(maps), k>>]
         \o AllDropRefs(Tail(maps), heap)

(***************************************************************************)
(* Tracker (app/tracker.py).  A world w bundles everything a handler can   *)
(* touch; env holds what it reads from outside: the clock, the iteration   *)
(* order of a Python set of item ids, the configuration, and which         *)
(* save_session call of the operation (if any) raises OSError.             *)
(***************************************************************************)
NoExc == "none"

Notify(w, type, data) ==
    [w EXCEPT !.out = Append(@, [type |-> type, data |-> data])]

\* Tracker._notify_state (the snapshot itself is GetStats).
NotifyState(w) == Notify(w, "state", <<>>)

\* The MapRun objects the tracker references, in the order session.maps and
\* then state.current_map first mention them.
RECURSIVE Distinct(_, _)
Distinct(s, seen) ==
    IF s = <<>> THEN <<>>
    ELSE IF Head(s) \in seen THEN Distinct(Tail(s), seen)
    ELSE <<Head(s)>> \o Distinct(Tail(s), seen \cup {Head(s)})

LiveRuns(w) ==
    Distinct(w.state.current_session.maps \o <<w.state.current_map>>, {NoMap})

\* Objects no longer referenced are reclaimed; an object id carries no
\* meaning, so the live objects are renumbered in LiveRuns order.
Collect(w) ==
    LET live == LiveRuns(w)
        new(r) == IF r = NoMap THEN NoMap
                  ELSE CHOOSE k \in 1..Len(live) : live[k] = r
        maps == w.state.current_session.maps
    IN [w EXCEPT !.heap = [k \in 1..Len(live) |-> w.heap[live[k]]],
                 !.state.current_map = new(@),
                 !.state.current_session.maps = [i \in 1..Len(maps) |-> new(maps[i])]]

\* id() of a newly constructed MapRun.
NewRunId(heap) ==
    CHOOSE r \in 1..(Cardinality(DOMAIN heap) + 1) : r \notin DOMAIN heap

\* uuid4(): an id no session in memory or on disk carries (the least one).
uuid4(w) ==
    LET used == DOMAIN w.disk \cup {w.state.current_session.id}
    IN CHOOSE id \in 1..(Cardinality(used) + 1) :
          id \notin used /\ \A other \in 1..(id - 1) : other \in used

\* SessionManager.create_session
create_session(w, env) ==
    [w EXCEPT !.state.current_session = Session(uuid4(w), env.now)]

\* session.to_dict() of the current session, as save_session computes it.
SessionDump(w) == SessionToDict(w.state.current_session, w.heap)

\* A write that never reaches the file.
WriteFileUnwritten(w, data) == w

\* json.dump into data/sessions/<id>.json, opened with mode "w".
WriteFile(w, data) == [w EXCEPT !.disk = Put(@, data.id, data)]

\* SessionManager.save_session: writes data/sessions/<id>.json, or raises
\* OSError when the file cannot be opened.
save_session(w, env) ==
    IF env.fail_at = w.saves + 1
    THEN [w EXCEPT !.saves = @ + 1, !.exc = "OSError"]
    ELSE [WriteFile(w, SessionDump(w)) EXCEPT !.saves = @ + 1]

\* Tracker._on_map_enter
OnMapEnter(w, is_league_zone, env) ==
    LET run == NewRunId(w.heap)
        w1 == [w EXCEPT !.state.is_in_map = TRUE,
                        !.bag = BagResetBaseline(w.bag),
                        !.heap = Put(@, run, MapRun(env.now, is_league_zone)),
                        !.state.current_map = run]
        w2 == IF w1.state.current_session = NoSession
              THEN create_session(w1, env) ELSE w1
    IN NotifyState(Notify(w2, "map_enter", <<>>))

\* Tracker._on_map_exit, lines 114-118: the end time and the append.
ExitClose(w, env) ==
    LET cm == w.state.current_map
        wa == [w EXCEPT !.heap[cm].ended_at = env.now]
    IN IF cm = NoMap THEN w
       ELSE IF wa.state.current_session = NoSession THEN wa
       ELSE [wa EXCEPT !.state.current_session.maps = Append(@, cm)]

\* Whether _on_map_exit goes on to call save_session (line 119).
ExitSaves(w) ==
    w.state.current_map # NoMap /\ w.state.current_session # NoSession

\* An exit that clears the flag and keeps the run as the current one.
ExitFinishKeepsRun(w) ==
    NotifyState(Notify([w EXCEPT !.state.is_in_map = FALSE], "map_exit", <<>>))

\* Tracker._on_map_exit, lines 121-126: idle again, and the notifications.
ExitFinish(w) ==
    NotifyState(Notify(
        [w EXCEPT !.state.is_in_map = FALSE, !.state.current_map = NoMap],
        "map_exit", <<>>))

\* Tracker._on_map_exit
OnMapExit(w, env) ==
    LET w1 == IF ExitSaves(w) THEN save_session(ExitClose(w, env), env)
              ELSE ExitClose(w, env)
    IN IF w1.exc # NoExc THEN w1 ELSE ExitFinish(w1)

\* The loop of Tracker._process_drops over changes.items(), in the
\* iteration order env.order of the item ids.
RECURSIVE DropLoop(_, _, _, _)
DropLoop(w, changes, order, env) ==
    IF order = <<>> THEN w
    ELSE LET item_id == Head(order)
             quantity == changes[item_id]
             price == get_price_with_tax(w.prices, env.config, item_id)
             value == IF price # NoValue /\ ValueOf(price) # 0
                      THEN Some(ValueOf(price) * quantity) ELSE NoValue
             drop == Drop(item_id, quantity, env.now, value)
             cm == w.state.current_map
         IN IF item_id \notin DOMAIN changes
               \/ IsUnknownName(get_item_name(item_id))
            THEN DropLoop(w, changes, Tail(order), env)
            ELSE DropLoop(
                   Notify([w EXCEPT !.heap[cm].drops = Append(@, drop)],
                          "drop",
                          [item_id |-> item_id, quantity |-> quantity,
                           value |-> value]),
                   changes, Tail(order), env)

\* Drop processing that does not ask whether a MapRun is open.
ProcessDropsUnguarded(w, changes, env) ==
    NotifyState(DropLoop(w, changes, env.order, env))

\* Tracker._process_drops
ProcessDrops(w, changes, env) ==
    IF w.state.current_map = NoMap THEN w
    ELSE NotifyState(DropLoop(w, changes, env.order, env))

\* A backfill that revalues every drop of the run, whatever its item.
BackfillRunEveryItem(run, item_id, price) ==
    [run EXCEPT !.drops =
        [k \in 1..Len(run.drops) |->
            [run.drops[k] EXCEPT !.value = Some(price * run.drops[k].quantity)]]]

\* A backfill that fills only the drops still lacking a value.
BackfillRunNullOnly(run, item_id, price) ==
    [run EXCEPT !.drops =
        [k \in 1..Len(run.drops) |->
            IF run.drops[k].item_id = item_id /\ run.drops[k].value = NoValue
            THEN [run.drops[k] EXCEPT !.value = Some(price * run.drops[k].quantity)]
            ELSE run.drops[k]]]

\* The loop body of Tracker._backfill_prices over one MapRun.
BackfillRun(run, item_id, price) ==
    [run EXCEPT !.drops =
        [k \in 1..Len(run.drops) |->
            IF run.drops[k].item_id = item_id
            THEN [run.drops[k] EXCEPT !.value = Some(price * run.drops[k].quantity)]
            ELSE run.drops[k]]]

\* Tracker._backfill_prices
BackfillPrices(w, item_id, env) ==
    LET price == get_price_with_tax(w.prices, env.config, item_id)
        session == w.state.current_session
        targets == (IF w.state.current_map # NoMap
                    THEN {w.state.current_map} ELSE {})
                   \cup (IF session # NoSession
                         THEN {session.maps[i] : i \in 1..Len(session.maps)}
                         ELSE {})
        w1 == [w EXCEPT !.heap =
                 [r \in DOMAIN w.heap |->
                    IF r \in targets
                    THEN BackfillRun(w.heap[r], item_id, ValueOf(price))
                    ELSE w.heap[r]]]
        w2 == IF session # NoSession THEN save_session(w1, env) ELSE w1
    IN IF price = NoValue THEN w
       ELSE IF w2.exc # NoExc THEN w2
       ELSE NotifyState(w2)

\* The init stage without the minimum count.
InitStageAnyCount(w, chunk) ==
    LET init_items == parse_bag_init(chunk)
    IN IF w.awaiting_init \/ ~w.state.is_initialized
       THEN Notify([w EXCEPT !.bag = BagInitialize(init_items),
                             !.state.is_initialized = TRUE,
                             !.awaiting_init = FALSE],
                   "initialized",
                   [item_count |-> BagInitializeCount(init_items)])
       ELSE w

\* Tracker.process_log_chunk, lines 59-66: initialization data.
InitStage(w, chunk) ==
    LET init_items == parse_bag_init(chunk)
    IN IF (w.awaiting_init \/ ~w.state.is_initialized)
          /\ Len(init_items) >= MIN_INIT_ITEMS
       THEN Notify([w EXCEPT !.bag = BagInitialize(init_items),
                             !.state.is_initialized = TRUE,
                             !.awaiting_init = FALSE],
                   "initialized",
                   [item_count |-> BagInitializeCount(init_items)])
       ELSE w

\* Tracker.process_log_chunk, lines 68-74: the map change.
MapStage(w, chunk, env) ==
    LET map_event == parse_map_change(chunk)
    IN IF map_event = NoValue THEN w
       ELSE IF ValueOf(map_event).entering
            THEN OnMapEnter(w, ValueOf(map_event).is_league_zone, env)
            ELSE OnMapExit(w, env)

\* Tracker.process_log_chunk, lines 76-82: bag modifications.
ModStage(w, chunk, env) ==
    LET mods == parse_bag_modifications(chunk)
        r == BagProcessModifications(w.bag, mods)
        w1 == [w EXCEPT !.bag = r.bag]
    IN IF ~w.state.is_initialized \/ mods = <<>> THEN w
       ELSE IF DOMAIN r.changes = {} THEN w1
       ELSE ProcessDrops(w1, r.changes, env)

\* Tracker.process_log_chunk, lines 84-91: the loop over the price events.
RECURSIVE PriceLoop(_, _, _)
PriceLoop(w, price_events, env) ==
    IF price_events = <<>> \/ w.exc # NoExc THEN w
    ELSE LET event == Head(price_events)
             r == update_from_search(w.prices, event.item_id, event.prices)
             w1 == BackfillPrices([w EXCEPT !.prices = r.prices],
                                  event.item_id, env)
         IN IF w1.exc # NoExc THEN w1
            ELSE PriceLoop(Notify(w1, "price_update",
                                  [item_id |-> event.item_id, price |-> r.result]),
                           Tail(price_events), env)

PriceStage(w, chunk, env) == PriceLoop(w, parse_price_search(chunk), env)

\* Tracker.process_log_chunk
ProcessLogChunkW(w, chunk, env) ==
    LET w1 == InitStage(w, chunk)
        w2 == MapStage(w1, chunk, env)
        w3 == IF w2.exc # NoExc THEN w2 ELSE ModStage(w2, chunk, env)
        w4 == IF w3.exc # NoExc THEN w3 ELSE PriceStage(w3, chunk, env)
    IN Collect(w4)

\* A request that leaves the inventory in place.
RequestInitializationKeepsBag(w) ==
    [w EXCEPT !.awaiting_init = TRUE, !.state.is_initialized = FALSE]

\* A request that leaves the engine's initialized flag as it was.
RequestInitializationKeepsEngineFlag(w) ==
    [w EXCEPT !.awaiting_init = TRUE, !.bag = BagClear]

\* Tracker.request_initialization
RequestInitializationW(w) ==
    [w EXCEPT !.awaiting_init = TRUE,
              !.bag = BagClear,
              !.state.is_initialized = FALSE]

\* A display mode setter that stores whatever it is given.
SetDisplayModeUnchecked(w, mode) ==
    NotifyState([w EXCEPT !.state.display_mode = mode])

\* Tracker.set_display_mode: DisplayMode(mode) raises ValueError for an
\* identifier outside the enumeration, which the method swallows.
SetDisplayModeW(w, mode) ==
    IF mode \in DisplayMode
    THEN NotifyState([w EXCEPT !.state.display_mode = mode])
    ELSE w

\* A reset that leaves the session's end time unset.
ResetCloseUnstamped(w, env) == w

\* Tracker.reset_session, line 331: the session's end time.
ResetClose(w, env) ==
    IF w.state.current_session # NoSession
    THEN [w EXCEPT !.state.current_session.ended_at = env.now]
    ELSE w

\* Tracker.reset_session, lines 334-340: a clean slate, and the notifications.
ResetFinish(w) ==
    Collect(NotifyState(Notify(
        [w EXCEPT !.state.current_session = NoSession,
                  !.state.current_map = NoMap,
                  !.state.is_in_map = FALSE],
        "session_reset", <<>>)))

\* Tracker.reset_session
ResetSessionW(w, env) ==
    LET w1 == IF w.state.current_session # NoSession
              THEN save_session(ResetClose(w, env), env)
              ELSE w
    IN IF w1.exc # NoExc THEN w1 ELSE ResetFinish(w1)

\* A reset that leaves the awaiting flag as it was.
ResetAllKeepsAwaiting(w) ==
    Collect(NotifyState(Notify(
        [w EXCEPT !.bag = BagClear, !.state = TrackerState],
        "reset", <<>>)))

\* Tracker.reset_all
ResetAllW(w) ==
    Collect(NotifyState(Notify(
        [w EXCEPT !.bag = BagClear,
                  !.state = TrackerState,
                  !.awaiting_init = FALSE],
        "reset", <<>>)))

(***************************************************************************)
(* The inputs: records a chunk of the game log can hold.                   *)
(***************************************************************************)
Modfy(page, slot, item, num) ==
    [kind |-> "Modfy", page_id |-> page, slot_id |-> slot,
     item_id |-> item, quantity |-> num]

InitBagData(page, slot, item, num) ==
    [kind |-> "InitBagData", page_id |-> page, slot_id |-> slot,
     item_id |-> item, quantity |-> num]

SceneChange(last, next) == [kind |-> "Scene", last |-> last, next |-> next]

\* A search header directly followed by its price values.
PriceSearch(item, samples) ==
    [kind |-> "Price", item_id |-> item, prices |-> samples]

\* A price-search request block: correlation id and referenced item.
PriceRequest(syn_id, item) ==
    [kind |-> "PriceRequest", syn_id |-> syn_id, item_id |-> item,
     prices |-> <<>>]

\* A price-search response block: correlation id and sampled prices.
PriceResponse(syn_id, samples) ==
    [kind |-> "PriceResponse", syn_id |-> syn_id, prices |-> samples]

ModC == Modfy(1, 0, ItemC, 2)

ModFE == Modfy(1, 1, FE, 3)

ModGear == Modfy(2, 0, ItemGear, 1)

EnterMap == SceneChange(REFUGE_SCENE, SceneMap)

EnterLeague == SceneChange(REFUGE_SCENE, SceneLeague)

ExitMap == SceneChange(SceneMap, REFUGE_SCENE)

PriceC == PriceSearch(ItemC, <<16, 16, 16, 16, 800>>)

\* A full inventory dump: gear in the slots of page 9, then the extras.
Filler(n) == [i \in 1..n |-> InitBagData(9, i - 1, ItemGear, 1)]

DumpOk == Filler(MIN_INIT_ITEMS - 1) \o <<InitBagData(1, 0, ItemC, 1)>>

\* The same slot logged twice.
DumpTwice == DumpOk \o <<InitBagData(1, 0, ItemC, 1)>>

DumpShort == Filler(MIN_INIT_ITEMS - 1)

\* The chunks of the map life cycle: a map change alone, a pick-up alone,
\* a pick-up before or after a map change, and inventory dumps.
Chunks ==
    {<<EnterMap>>, <<EnterLeague>>, <<ExitMap>>, <<ModC>>,
     <<ModC, ExitMap>>, <<ModC, EnterMap>>, <<EnterMap, ModC>>,
     DumpOk, DumpTwice, DumpShort}

\* The chunks of price discovery.
PriceChunks ==
    {<<EnterMap>>, <<ExitMap>>, <<ModC>>, <<PriceC>>, <<ExitMap, PriceC>>,
     DumpOk}

\* Correlation ids: one the game uses in requests, one no request carries.
SynAsked == 1

SynNeverAsked == 9

RequestC == PriceRequest(SynAsked, ItemC)

ResponseAsked == PriceResponse(SynAsked, <<16, 16, 24>>)

ResponseNeverAsked == PriceResponse(SynNeverAsked, <<800>>)

\* The chunks of asynchronous price searches: a request and its response
\* in one chunk or in two, and a response nobody asked for.
SearchChunks ==
    {<<RequestC>>, <<ResponseAsked>>, <<RequestC, ResponseAsked>>,
     <<ResponseNeverAsked>>, <<RequestC, ResponseNeverAsked>>,
     <<EnterMap>>, <<ExitMap>>, <<ModC>>, DumpOk}

\* A stack used up: the slot of ModC emptied.
ModSpend == Modfy(1, 0, ItemC, 0)

\* The chunks of drop recording: batches of one and of two modifications,
\* of recognized and unrecognized items.
DropChunks ==
    {<<EnterMap>>, <<ExitMap>>, <<ModC>>, <<ModSpend>>, <<ModGear>>,
     <<ModFE, ModC>>, <<ModGear, ModC>>, DumpOk}

\* The chunks of one map with one pick-up.
UiChunks == {DumpOk, <<EnterMap>>, <<ModC>>, <<ExitMap>>}

\* The sample batches the engine is run on: their results are whole numbers.
EngineBatches ==
    {<<10, 10, 10, 10, 9999>>, <<16, 16, 16, 16, 800>>, <<24>>, <<2, 4>>,
     <<0, 0, 0>>}

\* The chunks of price estimation: one search result each.
EstimateChunks ==
    {<<PriceSearch(item, samples)>> :
        item \in {ItemC, ItemGear}, samples \in EngineBatches}

\* A move between two scenes that are not the refuge.
Wander == SceneChange(SceneMap, SceneLeague)

\* The chunks that hold two scene changes, next to those that hold one.
SceneChunks ==
    {DumpOk, <<ModC>>, <<EnterMap>>, <<ExitMap>>, <<EnterMap, ExitMap>>,
     <<ExitMap, EnterLeague>>, <<Wander, ExitMap>>, <<Wander, ModC, EnterMap>>}

\* Iteration orders of a Python set holding the item ids.
Orders == {<<FE, ItemC, ItemGear>>, <<ItemC, FE, ItemGear>>}

OrdersFor(chunk) ==
    IF Len(SelectKind(chunk, "Modfy")) >= 2 THEN Orders
    ELSE {<<FE, ItemC, ItemGear>>}

DefaultOrder == <<FE, ItemC, ItemGear>>

\* Which save_session call of an operation raises (0: none does).
FailsFor(chunk) ==
    IF SelectKind(chunk, "Scene") # <<>> \/ SelectKind(chunk, "Price") # <<>>
    THEN {0, 1} ELSE {0}

\* What the game writes in the threaded runs, burst by burst.
GameLog == <<DumpOk, <<EnterMap>>, <<ModC>>, <<ExitMap>>>>

\* The text of the bursts after position from, up to position to.
RECURSIVE LogText(_, _)
LogText(from, to) ==
    IF from >= to THEN <<>> ELSE LogText(from, to - 1) \o GameLog[to]

\* The watchdog threads that may call on_modified, and the Qt main thread.
WatcherThreads == 1..MaxThreads

UiThread == 0

(***************************************************************************)
(* State.                                                                  *)
(***************************************************************************)
VARIABLES
    state,          \* Tracker.state (TrackerState)
    awaiting_init,  \* Tracker._awaiting_init
    bag,            \* Tracker.bag (BagState)
    prices,         \* PriceManager._prices
    heap,           \* the MapRun objects, by object id
    disk,           \* data/sessions/<id>.json of the current session
    config,         \* config.json
    last,           \* history: what the last operation did (see Commit)
    log,            \* how many bursts the game has appended to its log file
    watcher,        \* LogFileHandler: file_position, _lock, and its threads
    ui,             \* the Qt main thread: the call it is in, its last snapshot
    store,          \* session files being written, and the saves issued
    now             \* datetime.now()

vars ==
    <<state, awaiting_init, bag, prices, heap, disk, config, now, last,
      log, watcher, ui, store>>

threadVars == <<log, watcher, ui, store>>

\* The world a handler starts from.
World ==
    [state |-> state, awaiting_init |-> awaiting_init, bag |-> bag,
     prices |-> prices, heap |-> heap, disk |-> disk,
     out |-> <<>>, exc |-> NoExc, saves |-> 0]

Env(order, fail_at) ==
    [now |-> now, order |-> order, fail_at |-> fail_at, config |-> config]

\* The model's bounds on object counts.
WithinBounds(w) ==
    /\ Cardinality(DOMAIN w.heap) <= MaxRuns
    /\ \A r \in DOMAIN w.heap : Len(w.heap[r].drops) <= MaxDrops
    /\ Len(w.state.current_session.maps) <= MaxMaps
    /\ w.state.current_session.id <= MaxSessions

\* The files the engine can still write: a session file is never opened
\* again once its session is no longer the current one.
OpenFiles(w) ==
    [id \in (DOMAIN w.disk) \cap {w.state.current_session.id} |-> w.disk[id]]

\* An operation returning: its effects become the program's state, and the
\* history variable keeps the notification types it handed to the UI
\* callback, the exception it raised, whether it started in a map, and
\* how many scene-change records the chunk it processed held.
CommitChunk(w, scenes) ==
    /\ WithinBounds(w)
    /\ state' = w.state
    /\ awaiting_init' = w.awaiting_init
    /\ bag' = w.bag
    /\ prices' = w.prices
    /\ heap' = w.heap
    /\ disk' = OpenFiles(w)
    /\ UNCHANGED threadVars
    /\ last' = [out |-> [i \in 1..Len(w.out) |-> w.out[i].type],
                exc |-> w.exc,
                was_in_map |-> state.is_in_map,
                scenes |-> scenes]

\* An operation other than a chunk returning.
Commit(w) == CommitChunk(w, 0)

Init ==
    /\ state = TrackerState
    /\ awaiting_init = FALSE
    /\ bag = EmptyBag
    /\ prices = PricesLoad
    /\ heap = EmptyMap
    /\ disk = EmptyMap
    /\ config = [tax_enabled |-> FALSE]
    /\ now = 0
    /\ last = [out |-> <<>>, exc |-> NoExc, was_in_map |-> FALSE,
               scenes |-> 0]
    /\ log = 0
    /\ watcher = [file_position |-> 0, lock |-> 0,
                  pc |-> [t \in WatcherThreads |-> "idle"],
                  new_content |-> [t \in WatcherThreads |-> <<0, 0>>],
                  delivered |-> <<>>]
    /\ ui = [pc |-> "idle", calls |-> 0, snapshot |-> NoValue]
    /\ store = [pending |-> [t \in {UiThread} \cup WatcherThreads |-> NoValue],
                issued |-> EmptyMap]

(***************************************************************************)
(* Operations, each run to completion (the serialised engine).             *)
(***************************************************************************)
\* LogFileHandler._read_new_content delivering one chunk to
\* Tracker.process_log_chunk.
ProcessLogChunkOf(chunks, faults) ==
    \E chunk \in chunks :
        \E order \in OrdersFor(chunk), fail_at \in FailsFor(chunk) \cap faults :
            /\ CommitChunk(ProcessLogChunkW(World, chunk, Env(order, fail_at)),
                           Len(SelectKind(chunk, "Scene")))
            /\ UNCHANGED <<config, now>>

ProcessLogChunk == ProcessLogChunkOf(Chunks, {0, 1})

ProcessPriceChunk == ProcessLogChunkOf(PriceChunks, {0})

RequestInitialization ==
    /\ Commit(RequestInitializationW(World))
    /\ UNCHANGED <<config, now>>

SetDisplayMode ==
    \E mode \in DisplayMode \cup {"compact"} :
        /\ Commit(SetDisplayModeW(World, mode))
        /\ UNCHANGED <<config, now>>

ResetSession ==
    \E fail_at \in {0, 1} :
        /\ Commit(ResetSessionW(World, Env(<<>>, fail_at)))
        /\ UNCHANGED <<config, now>>

ResetAll ==
    /\ Commit(ResetAllW(World))
    /\ UNCHANGED <<config, now>>

\* Api.set_price
SetPrice ==
    \E item_id \in {FE, ItemC}, price \in {0, 16} :
        /\ Commit([World EXCEPT !.prices = set_price(@, item_id, price)])
        /\ UNCHANGED <<config, now>>

\* Api.remove_price
RemovePrice ==
    \E item_id \in {ItemC} :
        /\ Commit([World EXCEPT !.prices = remove_price(@, item_id)])
        /\ UNCHANGED <<config, now>>

\* Api.save_settings changing tax_enabled
SaveSettings ==
    \E b \in BOOLEAN :
        /\ config' = [config EXCEPT !.tax_enabled = b]
        /\ UNCHANGED <<state, awaiting_init, bag, prices, heap, disk, now, last>>
        /\ UNCHANGED threadVars

\* Time passes.
Tick ==
    /\ now < MaxClock
    /\ now' = now + 1
    /\ UNCHANGED <<state, awaiting_init, bag, prices, heap, disk, config,
                   last>>
    /\ UNCHANGED threadVars

Next ==
    \/ ProcessLogChunk
    \/ RequestInitialization
    \/ ResetSession
    \/ ResetAll
    \/ Tick

Spec == Init /\ [][Next]_vars

\* Price discovery, with the disk never failing.
NextPrices ==
    \/ ProcessPriceChunk
    \/ RequestInitialization
    \/ SaveSettings
    \/ RemovePrice
    \/ Tick

SpecPrices == Init /\ [][NextPrices]_vars

ProcessSearchChunk == ProcessLogChunkOf(SearchChunks, {0})

ProcessDropChunk == ProcessLogChunkOf(DropChunks, {0})

ProcessUiChunk == ProcessLogChunkOf(UiChunks, {0})

ProcessEstimateChunk == ProcessLogChunkOf(EstimateChunks, {0})

\* Drop recording under manual price edits, with the disk never failing.
NextDrops ==
    \/ ProcessDropChunk
    \/ SetPrice
    \/ SaveSettings

SpecDrops == Init /\ [][NextDrops]_vars

\* The commands of the UI between the chunks of a map.
NextUi ==
    \/ ProcessUiChunk
    \/ SetDisplayMode
    \/ RequestInitialization
    \/ ResetSession
    \/ ResetAll
    \/ Tick

SpecUi == Init /\ [][NextUi]_vars

\* Price estimation from search results and manual edits.
NextEstimate ==
    \/ ProcessEstimateChunk
    \/ SetPrice
    \/ RemovePrice
    \/ SaveSettings

SpecEstimate == Init /\ [][NextEstimate]_vars

\* Api.remove_price for any item id the UI sends.
RemoveAnyPrice ==
    \E item_id \in Items :
        /\ Commit([World EXCEPT !.prices = remove_price(@, item_id)])
        /\ UNCHANGED <<config, now>>

\* PriceManager.clear
ClearPrices ==
    /\ Commit([World EXCEPT !.prices = clear(@)])
    /\ UNCHANGED <<config, now>>

\* The application restarted: PriceManager.__init__ loads the table.
LoadPrices ==
    /\ Commit([World EXCEPT !.prices = load(@)])
    /\ UNCHANGED <<config, now>>

\* The operations of the price manager.
NextManager ==
    \/ ProcessEstimateChunk
    \/ SetPrice
    \/ RemoveAnyPrice
    \/ ClearPrices
    \/ LoadPrices
    \/ SaveSettings

SpecManager == Init /\ [][NextManager]_vars

ProcessSceneChunk == ProcessLogChunkOf(SceneChunks, {0})

\* Chunks read after several scene changes were logged.
NextScenes ==
    \/ ProcessSceneChunk
    \/ RequestInitialization
    \/ ResetSession
    \/ Tick

SpecScenes == Init /\ [][NextScenes]_vars

\* Asynchronous price searches, with the disk never failing.
NextSearch ==
    \/ ProcessSearchChunk
    \/ RequestInitialization
    \/ SaveSettings
    \/ Tick

SpecSearch == Init /\ [][NextSearch]_vars

(***************************************************************************)
(* The threads.  Python switches threads between statements, so a handler  *)
(* is a sequence of steps here: LogFileHandler._read_new_content and the   *)
(* process_log_chunk call it makes on a watchdog thread; the operations    *)
(* the window invokes, and the heartbeat timer, on the Qt main thread.     *)
(* The disk does not fail in these runs, and every session file is kept.   *)
(***************************************************************************)
\* A step's effects on the tracker, the session files all kept.
Land(w) ==
    /\ WithinBounds(w)
    /\ state' = w.state
    /\ awaiting_init' = w.awaiting_init
    /\ bag' = w.bag
    /\ prices' = w.prices
    /\ heap' = w.heap
    /\ disk' = w.disk
    /\ UNCHANGED <<config, now, last>>

Untouched ==
    UNCHANGED <<state, awaiting_init, bag, prices, heap, disk, config, now, last>>

\* Tracker.get_stats: in_map, the current map, and the session with its
\* drops (references to the Drop objects) and its finished maps.
GetStats(w) ==
    LET cm == w.state.current_map
        session == w.state.current_session
        current_drops == IF cm = NoMap THEN <<>>
                         ELSE [k \in 1..Len(w.heap[cm].drops) |-> <<cm, k>>]
        listed(r) == w.heap[r].ended_at # NoTime /\ ~w.heap[r].is_league_zone
    IN [initialized |-> w.state.is_initialized,
        awaiting_init |-> w.awaiting_init,
        in_map |-> w.state.is_in_map,
        display_mode |-> w.state.display_mode,
        current_map |-> IF cm = NoMap THEN NoValue
                        ELSE Some([items |-> Len(current_drops)]),
        session |-> IF session = NoSession THEN NoValue
                    ELSE Some([id |-> session.id,
                               drops |-> AllDropRefs(session.maps, w.heap)
                                         \o current_drops,
                               maps |-> SelectSeq(session.maps, listed)])]

\* with self._lock: whether the lock can be taken.
LockIgnored(lock) == TRUE

LockFree(lock) == lock = 0

\* The steps of process_log_chunk while it runs on a watchdog thread.
CallbackPcs == {"callback", "map", "save", "write", "finish", "mods"}

\* The game appends its next burst to the log file.
AppendLog ==
    /\ log < Len(GameLog)
    /\ log' = log + 1
    /\ UNCHANGED <<watcher, ui, store>>
    /\ Untouched

\* LogFileHandler.on_modified called on thread t.
OnModified(t) ==
    /\ watcher.pc[t] = "idle"
    /\ watcher' = [watcher EXCEPT !.pc[t] = "lock"]
    /\ UNCHANGED <<log, ui, store>>
    /\ Untouched

\* _read_new_content, line 43: with self._lock
Acquire(t) ==
    /\ watcher.pc[t] = "lock"
    /\ LockFree(watcher.lock)
    /\ watcher' = [watcher EXCEPT !.lock = t, !.pc[t] = "read"]
    /\ UNCHANGED <<log, ui, store>>
    /\ Untouched

\* _read_new_content, lines 47-50: seek to file_position and read to the end.
ReadNewContent(t) ==
    /\ watcher.pc[t] = "read"
    /\ watcher' = [watcher EXCEPT !.new_content[t] = <<watcher.file_position, log>>,
                                  !.pc[t] = "tell"]
    /\ UNCHANGED <<log, ui, store>>
    /\ Untouched

\* _read_new_content, lines 53-57: file_position = f.tell(), and the
\* callback is entered if anything was read.
Tell(t) ==
    LET from == watcher.new_content[t][1]
        to == watcher.new_content[t][2]
    IN /\ watcher.pc[t] = "tell"
       /\ watcher' =
            [watcher EXCEPT
                !.file_position = to,
                !.pc[t] = IF from < to THEN "callback" ELSE "release",
                !.delivered = IF from < to
                              THEN Append(@, [thread |-> t, from |-> from + 1,
                                              to |-> to])
                              ELSE @]
       /\ UNCHANGED <<log, ui, store>>
       /\ Untouched

\* The chunk thread t is processing.
ChunkOf(t) == LogText(watcher.new_content[t][1], watcher.new_content[t][2])

\* process_log_chunk, lines 59-66
CallbackInit(t) ==
    /\ watcher.pc[t] = "callback"
    /\ Land(InitStage(World, ChunkOf(t)))
    /\ watcher' = [watcher EXCEPT !.pc[t] = "map"]
    /\ UNCHANGED <<log, ui, store>>

\* process_log_chunk, lines 68-74, up to the call of save_session in
\* _on_map_exit.
CallbackMap(t) ==
    LET map_event == parse_map_change(ChunkOf(t))
        exiting == map_event # NoValue /\ ~ValueOf(map_event).entering
    IN /\ watcher.pc[t] = "map"
       /\ IF ~exiting
          THEN /\ Land(MapStage(World, ChunkOf(t), Env(DefaultOrder, 0)))
               /\ watcher' = [watcher EXCEPT !.pc[t] = "mods"]
          ELSE /\ Land(ExitClose(World, Env(DefaultOrder, 0)))
               /\ watcher' = [watcher EXCEPT
                                !.pc[t] = IF ExitSaves(World) THEN "save"
                                          ELSE "finish"]
       /\ UNCHANGED <<log, ui, store>>

\* save_session, line 62: session.to_dict() is computed.
IssueSave(t) ==
    /\ store' = [store EXCEPT
                    !.pending[t] = Some(SessionDump(World)),
                    !.issued = Put(@, state.current_session.id, SessionDump(World))]

\* save_session, lines 61-62: json.dump writes the file.
WriteSave(t) ==
    /\ Land(WriteFile(World, ValueOf(store.pending[t])))
    /\ store' = [store EXCEPT !.pending[t] = NoValue]

CallbackSave(t) ==
    /\ watcher.pc[t] = "save"
    /\ IssueSave(t)
    /\ watcher' = [watcher EXCEPT !.pc[t] = "write"]
    /\ UNCHANGED <<log, ui>>
    /\ Untouched

CallbackWrite(t) ==
    /\ watcher.pc[t] = "write"
    /\ WriteSave(t)
    /\ watcher' = [watcher EXCEPT !.pc[t] = "finish"]
    /\ UNCHANGED <<log, ui>>

\* _on_map_exit, lines 121-126
CallbackFinish(t) ==
    /\ watcher.pc[t] = "finish"
    /\ Land(ExitFinish(World))
    /\ watcher' = [watcher EXCEPT !.pc[t] = "mods"]
    /\ UNCHANGED <<log, ui, store>>

\* process_log_chunk, lines 76-91 (the bursts hold no price search).
CallbackMods(t) ==
    /\ watcher.pc[t] = "mods"
    /\ Land(Collect(PriceStage(
                ModStage(World, ChunkOf(t), Env(DefaultOrder, 0)),
                ChunkOf(t), Env(DefaultOrder, 0))))
    /\ watcher' = [watcher EXCEPT !.pc[t] = "release"]
    /\ UNCHANGED <<log, ui, store>>

\* _read_new_content: leaving the with block.
Release(t) ==
    /\ watcher.pc[t] = "release"
    /\ watcher' = [watcher EXCEPT !.lock = 0, !.pc[t] = "idle"]
    /\ UNCHANGED <<log, ui, store>>
    /\ Untouched

WatcherStep(t) ==
    \/ OnModified(t)
    \/ Acquire(t)
    \/ ReadNewContent(t)
    \/ Tell(t)
    \/ CallbackInit(t)
    \/ CallbackMap(t)
    \/ CallbackSave(t)
    \/ CallbackWrite(t)
    \/ CallbackFinish(t)
    \/ CallbackMods(t)
    \/ Release(t)

\* The watchdog threads and the game alone.
NextWatcher ==
    \/ AppendLog
    \/ \E t \in WatcherThreads : WatcherStep(t)

SpecWatcher == Init /\ [][NextWatcher]_vars

\* The operations the window invokes on the tracker (Api, ApiBridge).
UiOps ==
    {"request_initialization", "reset_session", "reset_all",
     "set_display_mode", "set_price", "remove_price"}

\* The Qt main thread enters one of the operations.
UiCall ==
    \E op \in UiOps :
        /\ ui.pc = "idle"
        /\ ui.calls < MaxUiCalls
        /\ ui' = [ui EXCEPT !.pc = op, !.calls = @ + 1]
        /\ UNCHANGED <<log, watcher, store>>
        /\ Untouched

\* The heartbeat timer fires: Tracker._notify_state builds a snapshot.
TimerSnapshot ==
    /\ ui.pc = "idle"
    /\ ui' = [ui EXCEPT !.snapshot = Some(GetStats(World))]
    /\ UNCHANGED <<log, watcher, store>>
    /\ Untouched

\* What an operation without a save does to the tracker.
UiEffect(op, w) ==
    CASE op = "request_initialization" -> RequestInitializationW(w)
      [] op = "reset_all" -> ResetAllW(w)
      [] op = "set_display_mode" -> SetDisplayModeW(w, "items")
      [] op = "set_price" -> [w EXCEPT !.prices = set_price(@, ItemC, 8)]
      [] op = "remove_price" -> [w EXCEPT !.prices = remove_price(@, ItemC)]

UiRun ==
    /\ ui.pc \in UiOps \ {"reset_session"}
    /\ Land(UiEffect(ui.pc, World))
    /\ ui' = [ui EXCEPT !.pc = "idle"]
    /\ UNCHANGED <<log, watcher, store>>

\* Tracker.reset_session, lines 330-332, up to session.to_dict() in
\* save_session.
UiResetClose ==
    /\ ui.pc = "reset_session"
    /\ IF state.current_session # NoSession
       THEN /\ Land(ResetClose(World, Env(DefaultOrder, 0)))
            /\ store' = [store EXCEPT
                  !.pending[UiThread] =
                      Some(SessionDump(ResetClose(World, Env(DefaultOrder, 0)))),
                  !.issued =
                      Put(@, state.current_session.id,
                          SessionDump(ResetClose(World, Env(DefaultOrder, 0))))]
            /\ ui' = [ui EXCEPT !.pc = "reset_write"]
       ELSE /\ Land(World)
            /\ store' = store
            /\ ui' = [ui EXCEPT !.pc = "reset_finish"]
    /\ UNCHANGED <<log, watcher>>

UiResetWrite ==
    /\ ui.pc = "reset_write"
    /\ WriteSave(UiThread)
    /\ ui' = [ui EXCEPT !.pc = "reset_finish"]
    /\ UNCHANGED <<log, watcher>>

\* Tracker.reset_session, lines 334-340
UiResetFinish ==
    /\ ui.pc = "reset_finish"
    /\ Land(ResetFinish(World))
    /\ ui' = [ui EXCEPT !.pc = "idle"]
    /\ UNCHANGED <<log, watcher, store>>

\* One watchdog thread, the Qt main thread and the game.
NextThreads ==
    \/ AppendLog
    \/ WatcherStep(1)
    \/ UiCall
    \/ UiRun
    \/ UiResetClose
    \/ UiResetWrite
    \/ UiResetFinish
    \/ TimerSnapshot

SpecThreads == Init /\ [][NextThreads]_vars

(***************************************************************************)
(* Properties of the map life cycle.  A property about the handling of one *)
(* event applies the handler's stage to every reachable state.             *)
(***************************************************************************)
\* The environment of a handler call in which save_session call number
\* fail_at raises (0: none).
EnvAt(fail_at) == Env(DefaultOrder, fail_at)

EnterChunks == {<<EnterMap>>, <<EnterLeague>>}

\* The world a second operation starts from once a first one returned w.
Returned(w) == [w EXCEPT !.out = <<>>, !.exc = NoExc, !.saves = 0]

\* C1: a map-enter event processed while the engine is already in a map
\* re-opens nothing: the current MapRun (start time, drops) and the baseline
\* stay as they were.
ReenterReopensNothing ==
    \A chunk \in EnterChunks :
        (state.is_in_map /\ state.current_map # NoMap) =>
            LET w == MapStage(World, chunk, EnvAt(0))
            IN /\ w.state.current_map = state.current_map
               /\ w.heap[state.current_map] = heap[state.current_map]
               /\ w.bag = bag

\* C2: a map-enter event processed while the engine is not in a map leaves
\* the baseline equal to the per-item slot sums, a fresh current MapRun with
\* no drops carrying the event's league flag, the engine in a map, and a
\* Session, which is the one already open (same id, same closed maps) if
\* there was one.
EnterFromIdleOpensRun ==
    \A chunk \in EnterChunks :
        ~state.is_in_map =>
            LET event == ValueOf(parse_map_change(chunk))
                w == MapStage(World, chunk, EnvAt(0))
                run == w.state.current_map
                sum(i) == SumOver(w.bag.slots,
                                  {k \in DOMAIN w.bag.slots : k[3] = i})
            IN /\ \A i \in Items :
                    IF \E k \in DOMAIN w.bag.slots : k[3] = i
                    THEN i \in DOMAIN w.bag.baseline /\ w.bag.baseline[i] = sum(i)
                    ELSE i \notin DOMAIN w.bag.baseline
               /\ run # NoMap
               /\ run \notin DOMAIN heap
               /\ run \notin {state.current_session.maps[k] :
                                 k \in 1..Len(state.current_session.maps)}
               /\ w.heap[run].drops = <<>>
               /\ w.heap[run].is_league_zone = event.is_league_zone
               /\ w.state.is_in_map
               /\ w.state.current_session # NoSession
               /\ IF state.current_session # NoSession
                  THEN w.state.current_session = state.current_session
                  ELSE w.state.current_session.maps = <<>>

\* A reachable case of C2: a league map entered from the refuge, with a closed map
\* already in the session and an initialised bag.
EnteredLeagueFromIdle ==
    /\ ~last.was_in_map
    /\ last.out = <<"map_enter", "state">>
    /\ state.is_in_map
    /\ state.current_map # NoMap
    /\ heap[state.current_map].is_league_zone
    /\ heap[state.current_map].drops = <<>>
    /\ Len(state.current_session.maps) = 1
    /\ bag.initialized

\* C8: when save_session raises during a map exit, the engine is afterwards
\* not in a map, the closed MapRun is in the session's list exactly once, a
\* later map exit does not append it again, and the caller sees the failure.
FailedSaveLeavesStateSound ==
    (state.current_map # NoMap /\ state.current_session # NoSession) =>
        LET cm == state.current_map
            w == MapStage(World, <<ExitMap>>, EnvAt(1))
            later == MapStage(Returned(w), <<ExitMap>>, EnvAt(0))
            count(maps) == Cardinality({k \in 1..Len(maps) : maps[k] = cm})
        IN /\ w.exc # NoExc
           /\ ~w.state.is_in_map
           /\ count(w.state.current_session.maps) = 1
           /\ count(later.state.current_session.maps) = 1

\* C10: the events of a chunk are handled in text order: a pick-up logged
\* before a map exit becomes a Drop of the MapRun that was open, and a
\* pick-up logged before a map enter is no Drop of the MapRun then opened.
ChunkHandledInTextOrder ==
    LET picked == BagProcessModifications(bag, <<ModC>>).changes
    IN (state.is_initialized /\ ItemC \in DOMAIN picked) =>
          /\ (state.current_map # NoMap /\ state.current_session # NoSession) =>
                LET cm == state.current_map
                    w == ModStage(MapStage(World, <<ModC, ExitMap>>, EnvAt(0)),
                                  <<ModC, ExitMap>>, EnvAt(0))
                IN Len(w.heap[cm].drops) = Len(heap[cm].drops) + 1
          /\ ~state.is_in_map =>
                LET w == ModStage(MapStage(World, <<ModC, EnterMap>>, EnvAt(0)),
                                  <<ModC, EnterMap>>, EnvAt(0))
                IN w.heap[w.state.current_map].drops = <<>>

PriceCChunks == {<<PriceC>>, <<PriceSearch(ItemC, <<24, 8>>)>>}

\* C4: after a price-search event for an item is processed, each Drop of
\* that item in the current MapRun and in the session's closed maps has
\* value = tax-adjusted price x quantity, and the session file written by
\* the step holds these values.
BackfillCorrectsValues ==
    \A chunk \in PriceCChunks :
        LET w == PriceStage(World, chunk, EnvAt(0))
            session == w.state.current_session
            taxed == IF config.tax_enabled
                     THEN (w.prices[ItemC] * TaxNum) \div TaxDen
                     ELSE w.prices[ItemC]
            right(drop) ==
                drop.item_id = ItemC => drop.value = <<taxed * drop.quantity>>
            rightRun(run) == \A k \in 1..Len(run.drops) : right(run.drops[k])
        IN /\ ItemC \in DOMAIN w.prices
           /\ w.state.current_map # NoMap => rightRun(w.heap[w.state.current_map])
           /\ \A i \in 1..Len(session.maps) : rightRun(w.heap[session.maps[i]])
           /\ session # NoSession =>
                /\ session.id \in DOMAIN w.disk
                /\ Len(w.disk[session.id].maps) = Len(session.maps)
                /\ \A i \in 1..Len(session.maps) :
                      rightRun(w.disk[session.id].maps[i])

\* A reachable case of C4: a price search has just valued, after tax, a drop of a
\* closed map and a drop of the current map, on disk too.
BackfilledBothRuns ==
    /\ last.out = <<"state", "price_update">>
    /\ config.tax_enabled
    /\ state.current_map # NoMap
    /\ Len(state.current_session.maps) = 1
    /\ \E k \in 1..Len(heap[state.current_map].drops) :
          /\ heap[state.current_map].drops[k].item_id = ItemC
          /\ heap[state.current_map].drops[k].value = <<14>>
    /\ state.current_session.id \in DOMAIN disk
    /\ \E k \in 1..Len(disk[state.current_session.id].maps[1].drops) :
          /\ disk[state.current_session.id].maps[1].drops[k].item_id = ItemC
          /\ disk[state.current_session.id].maps[1].drops[k].value = <<14>>

(***************************************************************************)
(* Properties of the threads.                                              *)
(***************************************************************************)
\* C5: process_log_chunk never runs for two chunks at once, and the chunks
\* it is handed are consecutive segments of the log in file order, none
\* delivered twice and none skipped.
OneChunkAtATimeInOrder ==
    LET d == watcher.delivered
    IN /\ Cardinality({t \in WatcherThreads : watcher.pc[t] \in CallbackPcs}) <= 1
       /\ \A i \in 1..Len(d) :
             /\ d[i].from = (IF i = 1 THEN 1 ELSE d[i - 1].to + 1)
             /\ d[i].from <= d[i].to
             /\ d[i].to <= log
       /\ watcher.file_position <= log
       /\ (\A t \in WatcherThreads : watcher.pc[t] \in {"idle", "lock"}) =>
             watcher.file_position = (IF d = <<>> THEN 0 ELSE d[Len(d)].to)

\* A reachable case of C5: both threads have delivered a chunk, one of them while the
\* other waits for the lock, and a chunk spans two bursts.
TwoThreadsDelivered ==
    /\ Len(watcher.delivered) >= 2
    /\ \E i, j \in 1..Len(watcher.delivered) :
          /\ watcher.delivered[i].thread # watcher.delivered[j].thread
          /\ watcher.delivered[j].to > watcher.delivered[j].from
    /\ \E t, u \in WatcherThreads :
          watcher.pc[t] \in CallbackPcs /\ watcher.pc[u] = "lock"

\* C6: the heartbeat's snapshot is never torn: it never lists one Drop
\* twice (among the closed maps and in the current map), and never reports
\* in_map with the current map already among the session's finished maps.
SnapshotNeverTorn ==
    ui.snapshot # NoValue =>
        LET stats == ValueOf(ui.snapshot)
            session == ValueOf(stats.session)
            drops == session.drops
        IN (stats.session # NoValue) =>
              /\ \A i, j \in 1..Len(drops) : drops[i] = drops[j] => i = j
              /\ ~(stats.in_map /\ stats.current_map # NoValue
                   /\ session.maps # <<>>
                   /\ Len(session.drops) > 0
                   /\ \E i \in 1..Len(session.maps) :
                         session.maps[i] = session.drops[Len(session.drops)][1])

\* C7: no operation of the window runs while process_log_chunk is running
\* on a watchdog thread.
UiOpsSerialized ==
    ui.pc # "idle" =>
        \A t \in WatcherThreads : watcher.pc[t] \notin CallbackPcs

\* C9: writes of a session file land in the order the saves were issued:
\* once no write is in flight, the file holds what the save issued last
\* was given.
WritesLandInIssueOrder ==
    (\A t \in DOMAIN store.pending : store.pending[t] = NoValue) =>
        \A id \in DOMAIN store.issued :
            id \in DOMAIN disk /\ disk[id] = store.issued[id]

(***************************************************************************)
(* Properties of the price-search pairing.                                 *)
(***************************************************************************)
\* The price_update notifications an operation emitted.
PriceUpdates(w) ==
    SelectSeq(w.out, LAMBDA n : n.type = "price_update")

\* C11: a response whose correlation id no request carried, in the same or
\* an earlier chunk, is dropped: no price-search event, no price and no drop
\* changes.
UnaskedResponseDropped ==
    \A chunk \in {<<ResponseNeverAsked>>, <<RequestC, ResponseNeverAsked>>} :
        LET w == ProcessLogChunkW(World, chunk, EnvAt(0))
        IN /\ parse_price_search(chunk) = <<>>
           /\ PriceUpdates(w) = <<>>
           /\ w.prices = prices
           /\ w.heap = heap

\* C12: a request for an item followed, in the same chunk or in a later
\* one, by the response carrying its correlation id yields exactly one
\* price-search event, for that item; a second response with that id yields
\* none.
AskedResponseEmitsOnce ==
    LET together == ProcessLogChunkW(World, <<RequestC, ResponseAsked>>, EnvAt(0))
        asked == ProcessLogChunkW(World, <<RequestC>>, EnvAt(0))
        answered == ProcessLogChunkW(Returned(asked), <<ResponseAsked>>, EnvAt(0))
        again == ProcessLogChunkW(Returned(answered), <<ResponseAsked>>, EnvAt(0))
        one(out) == Len(out) = 1 /\ out[1].data.item_id = ItemC
    IN /\ one(PriceUpdates(together))
       /\ one(PriceUpdates(asked) \o PriceUpdates(answered))
       /\ PriceUpdates(again) = <<>>

(***************************************************************************)
(* Properties of initialization.                                           *)
(***************************************************************************)
Dumps == {DumpOk, DumpTwice, DumpShort}

\* C13: the init entries of a chunk are committed (inventory rebuilt from
\* them, engine initialized, awaiting flag cleared, one "initialized"
\* notification with the number of distinct item ids) exactly when the engine
\* is awaiting initialization or uninitialized and the chunk holds at least
\* MIN_INIT_ITEMS entries; otherwise inventory and engine state stay as
\* they were.
InitCommittedIffDueAndFull ==
    \A dump \in Dumps :
        LET w == ProcessLogChunkW(World, dump, EnvAt(0))
            keys == {SlotKey(dump[i]) : i \in 1..Len(dump)}
            ids == {dump[i].item_id : i \in 1..Len(dump)}
            lastAt(k) == CHOOSE i \in 1..Len(dump) :
                /\ SlotKey(dump[i]) = k
                /\ \A j \in (i + 1)..Len(dump) : SlotKey(dump[j]) # k
            total(id) == SeqSum([i \in 1..Len(dump) |->
                IF dump[i].item_id = id THEN dump[i].quantity ELSE 0])
        IN IF (awaiting_init \/ ~state.is_initialized) /\ Len(dump) >= 20
           THEN /\ DOMAIN w.bag.slots = keys
                /\ \A k \in keys : w.bag.slots[k] = dump[lastAt(k)].quantity
                /\ DOMAIN w.bag.baseline = ids
                /\ \A id \in ids : w.bag.baseline[id] = total(id)
                /\ w.bag.initialized
                /\ w.state = [state EXCEPT !.is_initialized = TRUE]
                /\ ~w.awaiting_init
                /\ w.out = <<[type |-> "initialized",
                              data |-> [item_count |-> Cardinality(ids)]]>>
           ELSE /\ w.bag = bag
                /\ w.state = state
                /\ w.awaiting_init = awaiting_init
                /\ w.out = <<>>

\* A reachable case of C13: a full dump was committed, and the engine then
\* holds an inventory that a further dump would leave alone.
DumpCommitted ==
    /\ last.out = <<"initialized">>
    /\ state.is_initialized
    /\ ~awaiting_init
    /\ DOMAIN bag.baseline = {ItemC, ItemGear}

(***************************************************************************)
(* Properties of drop recording.                                           *)
(***************************************************************************)
ModBatches ==
    {<<ModC>>, <<ModSpend>>, <<ModGear>>, <<ModFE, ModC>>, <<ModGear, ModC>>}

\* The quantity a slot holds once the batch is applied: the last record
\* naming it, or what it held.
SlotAfter(batch, k) ==
    IF \E i \in 1..Len(batch) : SlotKey(batch[i]) = k
    THEN batch[CHOOSE i \in 1..Len(batch) :
                 /\ SlotKey(batch[i]) = k
                 /\ \A j \in (i + 1)..Len(batch) : SlotKey(batch[j]) # k].quantity
    ELSE bag.slots[k]

\* The signed delta of an item over the batch: its total afterwards minus
\* its baseline.
DeltaOf(batch, id) ==
    LET keys == DOMAIN bag.slots \cup {SlotKey(batch[i]) : i \in 1..Len(batch)}
        held == [k \in keys |-> SlotAfter(batch, k)]
    IN SumOver(held, {k \in keys : k[3] = id}) - Get(bag.baseline, id, 0)

\* The tax-adjusted price of an item that has a price record.
TaxedPrice(id) ==
    IF config.tax_enabled /\ id # FE THEN (prices[id] * 7) \div 8
    ELSE prices[id]

\* The drops a batch appended to the run that is open.
AddedDrops(w) ==
    LET old == heap[state.current_map].drops
        new == w.heap[w.state.current_map].drops
    IN SubSeq(new, Len(old) + 1, Len(new))

DropNotes(w) == SelectSeq(w.out, LAMBDA n : n.type = "drop")

\* C14: a modify batch processed while initialized with a MapRun open
\* appends one Drop (item, quantity = signed delta, value = tax-adjusted
\* price x quantity or null) and emits one drop notification for each
\* catalog item with a nonzero delta, and neither for an item the catalog
\* does not know.
BatchDropsPerRecognizedItem ==
    \A batch \in ModBatches, order \in Orders :
        (state.is_initialized /\ state.current_map # NoMap) =>
            LET w == ProcessLogChunkW(World, batch, Env(order, 0))
                due == {id \in DOMAIN ItemCatalog : DeltaOf(batch, id) # 0}
                added == AddedDrops(w)
                notes == DropNotes(w)
            IN /\ Len(w.heap[w.state.current_map].drops)
                    = Len(heap[state.current_map].drops) + Cardinality(due)
               /\ Len(notes) = Cardinality(due)
               /\ \A id \in due :
                    \E k \in 1..Len(added) :
                        /\ added[k].item_id = id
                        /\ added[k].quantity = DeltaOf(batch, id)
                        /\ IF id \in DOMAIN prices
                           THEN added[k].value \in
                                  {NoValue, Some(TaxedPrice(id) * DeltaOf(batch, id))}
                           ELSE added[k].value = NoValue
                        /\ notes[k].data.item_id = id
                        /\ notes[k].data.quantity = added[k].quantity
                        /\ notes[k].data.value = added[k].value

\* A reachable case of C14: a pick-up of a catalog item was recorded, with
\* a value, in the open run.
DropRecordedWithValue ==
    /\ "drop" \in {last.out[i] : i \in 1..Len(last.out)}
    /\ state.current_map # NoMap
    /\ \E k \in 1..Len(heap[state.current_map].drops) :
        /\ heap[state.current_map].drops[k].item_id = ItemC
        /\ heap[state.current_map].drops[k].value # NoValue

\* C15: the Drop of a recognized item has a null value exactly when the
\* item has no price record; with a record, whatever its number, the value
\* is price x quantity; and no error is raised.
DropValueNullIffUnpriced ==
    \A batch \in ModBatches, order \in Orders :
        (state.is_initialized /\ state.current_map # NoMap) =>
            LET w == ProcessLogChunkW(World, batch, Env(order, 0))
                added == AddedDrops(w)
            IN /\ w.exc = NoExc
               /\ \A k \in 1..Len(added) :
                    IF added[k].item_id \in DOMAIN prices
                    THEN added[k].value
                           = Some(TaxedPrice(added[k].item_id) * added[k].quantity)
                    ELSE added[k].value = NoValue

ResetAllGivesFreshEngine ==
    LET w == ResetAllW(World)
    IN /\ w.state = [is_initialized |-> FALSE, is_in_map |-> FALSE,
                     current_map |-> NoMap, current_session |-> NoSession,
                     display_mode |-> "value"]
       /\ ~w.awaiting_init
       /\ w.bag = [slots |-> EmptyMap, baseline |-> EmptyMap,
                   initialized |-> FALSE]
       /\ w.heap = EmptyMap
       /\ w.exc = NoExc
       /\ [i \in 1..Len(w.out) |-> w.out[i].type] = <<"reset", "state">>

\* A reachable case of C17: everything was reset in the middle of a map.
AllResetInMap ==
    /\ last.out = <<"reset", "state">>
    /\ last.was_in_map
    /\ state.current_session = NoSession
    /\ ~bag.initialized

(***************************************************************************)
(* Properties of the UI commands.                                          *)
(***************************************************************************)
\* C19: set_display_mode with an identifier outside {value, items} raises
\* nothing, changes nothing and notifies nothing; with one of the two only
\* the display mode changes and one state snapshot is emitted.
DisplayModeSetOnlyIfKnown ==
    \A mode \in {"value", "items", "compact", ""} :
        LET w == SetDisplayModeW(World, mode)
        IN /\ w.exc = NoExc
           /\ IF mode \in {"value", "items"}
              THEN /\ w = [World EXCEPT !.state.display_mode = mode,
                                        !.out = w.out]
                   /\ [i \in 1..Len(w.out) |-> w.out[i].type] = <<"state">>
              ELSE w = World

\* A reachable case of C19: the mode was switched to items, and an unknown
\* identifier leaves it there.
ItemsModeShown ==
    /\ state.display_mode = "items"
    /\ last.out = <<"state">>
    /\ state.is_in_map

\* C18: request_initialization empties the inventory (no slots, no
\* baseline, not initialized) and leaves the engine awaiting initialization,
\* with the current Session, the current MapRun and its drops and the in-map
\* flag as they were; while no chunk has committed an initialization, modify
\* records produce no Drops.
RequestClearsInventoryOnly ==
    LET w == RequestInitializationW(World)
        quiet(v) ==
            \A chunk \in {<<ModC>>, <<ModFE, ModC>>, DumpShort \o <<ModC>>},
               order \in Orders :
                LET u == ProcessLogChunkW(v, chunk, Env(order, 0))
                IN /\ u.heap = v.heap
                   /\ DropNotes(u) = <<>>
                   /\ ~u.state.is_initialized
    IN /\ w.bag = [slots |-> EmptyMap, baseline |-> EmptyMap,
                   initialized |-> FALSE]
       /\ w.awaiting_init
       /\ ~w.state.is_initialized
       /\ w.state = [state EXCEPT !.is_initialized = FALSE]
       /\ w.heap = heap
       /\ w.out = <<>>
       /\ w.exc = NoExc
       /\ quiet(w)
       /\ ~state.is_initialized => quiet(World)

\* A reachable case of C18: initialization was requested in a map that
\* already holds a drop, and no dump has been committed since.
AwaitingInMapWithDrop ==
    /\ awaiting_init
    /\ ~state.is_initialized
    /\ DOMAIN bag.slots = {}
    /\ state.is_in_map
    /\ state.current_map # NoMap
    /\ heap[state.current_map].drops # <<>>

(***************************************************************************)
(* Properties of the inventory.                                            *)
(***************************************************************************)
\* C20: right after reset_baseline, for every item id the baseline is the
\* sum of the quantities of the slots holding the item (an item in no slot
\* has no baseline), and the slots are what they were.
BaselineIsSlotSumAfterReset ==
    LET b == BagResetBaseline(bag)
        held == {k[3] : k \in DOMAIN bag.slots}
    IN /\ b.slots = bag.slots
       /\ b.initialized = bag.initialized
       /\ DOMAIN b.baseline = held
       /\ \A id \in held :
            b.baseline[id] =
                SumOver(bag.slots, {k \in DOMAIN bag.slots : k[3] = id})

\* A reachable case of C20: a map was entered with the inventory
\* initialized, and the baseline of the item is what its one slot holds.
BaselineResetOnEnter ==
    /\ last.out = <<"map_enter", "state">>
    /\ bag.initialized
    /\ ItemC \in DOMAIN bag.baseline
    /\ bag.baseline[ItemC] = 1
    /\ bag.slots[<<1, 0, ItemC>>] = 1

(***************************************************************************)
(* Properties of BagState.                                                 *)
(***************************************************************************)
\* C21: in every reachable inventory state, process_modifications with an
\* empty list returns no deltas and leaves baseline and slots unchanged.
EmptyBatchChangesNothing ==
    LET r == BagProcessModifications(bag, <<>>)
    IN /\ r.changes = EmptyMap
       /\ r.bag.slots = bag.slots
       /\ r.bag.baseline = bag.baseline

\* Lists of init entries: the dumps, the empty list, one slot named twice
\* with different counts, and one item in two slots.
InitLists ==
    Dumps \cup
    {<<>>,
     <<InitBagData(1, 0, ItemC, 5), InitBagData(1, 0, ItemC, 3)>>,
     <<InitBagData(1, 0, ItemC, 5), InitBagData(1, 1, ItemC, 3)>>}

\* C22: for every list of init entries, also one naming a page/slot/item
\* key more than once, initialize followed by process_modifications with an
\* empty list yields an empty diff: every baseline is the sum of the stored
\* slot quantities of its item.
InitThenEmptyDiff ==
    \A entries \in InitLists :
        LET b == BagInitialize(entries)
            r == BagProcessModifications(b, <<>>)
        IN /\ r.changes = EmptyMap
           /\ \A id \in {k[3] : k \in DOMAIN b.slots} :
                b.baseline[id] =
                    SumOver(b.slots, {k \in DOMAIN b.slots : k[3] = id})

\* A slot written twice in one batch.
RewriteBatch == <<Modfy(1, 0, ItemC, 5), Modfy(1, 0, ItemC, 2)>>

\* The stack of slot 1:0 moved to slot 1:3 within one batch.
MoveBatches ==
    IF <<1, 0, ItemC>> \in DOMAIN bag.slots
    THEN {<<Modfy(1, 0, ItemC, 0),
            Modfy(1, 3, ItemC, bag.slots[<<1, 0, ItemC>>])>>}
    ELSE {}

UninitializedIgnoresMods ==
    ~bag.initialized =>
        \A batch \in ModBatches \cup {RewriteBatch}, order \in Orders :
            LET r == BagProcessModifications(bag, batch)
                w == ProcessLogChunkW(World, batch, Env(order, 0))
            IN /\ r.changes = EmptyMap
               /\ r.bag = bag
               /\ ~state.is_initialized
               /\ w.bag = bag
               /\ w.heap = heap
               /\ w.out = <<>>

\* A reachable case of C24: the inventory was cleared by a request while a
\* map with a drop is open.
ClearedInMapWithDrop ==
    /\ ~bag.initialized
    /\ awaiting_init
    /\ state.current_map # NoMap
    /\ heap[state.current_map].drops # <<>>
    /\ last.out = <<>>

(***************************************************************************)
(* Properties of PriceManager.  The sample batches are the monotone lists  *)
(* of at most MaxBatch whole-number samples from SampleValues.             *)
(***************************************************************************)
MaxBatch == 6

SampleValues == {0, 1, 2, 3, 7, 100}

\* The ascending batches of n samples.
RECURSIVE Ascending(_)
Ascending(n) ==
    IF n = 0 THEN {<<>>}
    ELSE UNION {{Append(b, v) :
                    v \in {x \in SampleValues : b = <<>> \/ b[Len(b)] <= x}} :
                b \in Ascending(n - 1)}

Reversed(b) == [i \in 1..Len(b) |-> b[Len(b) + 1 - i]]

Batches ==
    UNION {Ascending(n) \cup {Reversed(b) : b \in Ascending(n)} :
              n \in 0..MaxBatch}

\* The k-th smallest sample of a batch, by counting.
Kth(b, k) ==
    CHOOSE v \in {b[i] : i \in 1..Len(b)} :
        /\ Cardinality({i \in 1..Len(b) : b[i] < v}) < k
        /\ k <= Cardinality({i \in 1..Len(b) : b[i] <= v})

\* Twice the median of a batch.
RefMedian2(b) ==
    IF Len(b) % 2 = 0
    THEN Kth(b, Len(b) \div 2) + Kth(b, Len(b) \div 2 + 1)
    ELSE 2 * Kth(b, (Len(b) + 1) \div 2)

\* Twice each sample's distance from the median.
RefDev2(b) == [i \in 1..Len(b) |-> Abs(2 * b[i] - RefMedian2(b))]

\* The positions of the retained samples: within 5% of the median (within
\* 0.01 of a median of 0) when the MAD is 0, and modified z-score
\* 0.6745 * |x - m| / MAD <= 3.5 otherwise.
Retained(b) ==
    LET m2 == RefMedian2(b)
        mad4 == RefMedian2(RefDev2(b))
    IN {i \in 1..Len(b) :
          IF mad4 = 0
          THEN IF m2 # 0 THEN 20 * RefDev2(b)[i] <= m2
               ELSE 50 * RefDev2(b)[i] <= 1
          ELSE 13490 * RefDev2(b)[i] <= 35000 * mad4}

RetainedSum(b) ==
    SeqSum([i \in 1..Len(b) |-> IF i \in Retained(b) THEN b[i] ELSE 0])

\* q is the reference estimate of a non-empty batch.
IsReference(q, b) ==
    IF Len(b) < 5 THEN 2 * q.num = RefMedian2(b) * q.den
    ELSE /\ Retained(b) # {}
         /\ q.num * Cardinality(Retained(b)) = RetainedSum(b) * q.den

\* C25: for a pinned item set_price leaves the price table unchanged, and
\* update_from_search returns the pinned value for every batch and changes
\* no price record.
PinnedPriceNeverMoves ==
    \A item \in DOMAIN FIXED_PRICES :
        /\ \A price \in SampleValues \cup {16} :
            set_price(prices, item, price) = prices
        /\ \A b \in Batches :
            /\ update_from_search(prices, item, b).prices = prices
            /\ update_from_search(prices, item, b).result = FIXED_PRICES[item]
            /\ SearchResult(item, b) = Ratio(FIXED_PRICES[item], 1)
        /\ prices[item] = FIXED_PRICES[item]

\* A reachable case of C25: prices were set by hand (the setter was offered
\* the pinned item too) and the pinned record is what it was.
PinnedKeptAmongEdits ==
    /\ prices[FE] = 1
    /\ ItemC \in DOMAIN prices
    /\ prices[ItemC] = 0
    /\ ItemGear \in DOMAIN prices

\* C26: for a batch in which more than half of the samples equal V and
\* every other sample differs from V by more than 5% of V,
\* update_from_search for an item that is not pinned returns V.
MajorityValueWins ==
    /\ SearchResult(ItemC, <<10, 10, 10, 10, 9999>>) = Ratio(40, 4)
    /\ \A b \in Batches \ {<<>>}, V \in SampleValues :
        (/\ 2 * Cardinality({i \in 1..Len(b) : b[i] = V}) > Len(b)
         /\ \A i \in 1..Len(b) : b[i] # V => 20 * Abs(b[i] - V) > V)
        => LET q == SearchResult(ItemC, b)
           IN /\ q.num = V * q.den
              /\ update_from_search(prices, ItemC, b).result = V
              /\ get_price(update_from_search(prices, ItemC, b).prices, ItemC)
                    = Some(V)

\* A reachable case of C26: the search with four samples of 10 and one of
\* 9999 was processed and the item's price is 10.
OutlierSearchStored ==
    /\ "price_update" \in {last.out[i] : i \in 1..Len(last.out)}
    /\ ItemC \in DOMAIN prices
    /\ prices[ItemC] = 10

\* C27: for every non-empty batch and item that is not pinned,
\* update_from_search returns the reference estimate (the median below 5
\* samples, else the mean of the retained samples), and right afterwards
\* get_price gives the returned value.
SearchReturnsStoredReference ==
    \A b \in Batches \ {<<>>}, item \in {ItemC, ItemGear} :
        LET q == SearchResult(item, b)
            r == update_from_search(prices, item, b)
        IN /\ IsReference(q, b)
           /\ item \in DOMAIN r.prices
           /\ \A other \in (DOMAIN prices) \ {item} :
                r.prices[other] = prices[other]
           /\ round4(q) * q.den = 10000 * q.num

\* C28: update_from_search returns no default zero: for every batch, the
\* empty one too, a returned 0 is the median or the filtered mean of the
\* samples, and when the filter removes every sample the result is the
\* median.
ZeroOnlyFromSamples ==
    \A b \in Batches, item \in (DOMAIN prices) \cup {ItemC} :
        LET q == SearchResult(item, b)
        IN /\ (item \notin DOMAIN FIXED_PRICES /\ q.num = 0) =>
                /\ b # <<>>
                /\ \/ RefMedian2(b) = 0
                   \/ Retained(b) # {} /\ RetainedSum(b) = 0
           /\ (b # <<>> /\ Len(b) >= 5 /\ Retained(b) = {}) =>
                2 * q.num = RefMedian2(b) * q.den

(***************************************************************************)
(* Properties of the scene-change parser.                                  *)
(***************************************************************************)
\* C29: parse_map_change classifies a scene transition by the refuge path
\* alone: refuge left for another scene is an entering event, another scene
\* left for the refuge is an exiting event, and a transition with the
\* refuge on both sides or on neither is no event.
SceneClassifiedByRefuge ==
    \A last_scene \in Scenes, next_scene \in Scenes :
        LET chunk == <<SceneChange(last_scene, next_scene)>>
            event == parse_map_change(chunk)
            w == ProcessLogChunkW(World, chunk, EnvAt(0))
            types == [i \in 1..Len(w.out) |-> w.out[i].type]
        IN IF last_scene = REFUGE_SCENE /\ next_scene # REFUGE_SCENE
           THEN /\ event # NoValue
                /\ ValueOf(event).entering
                /\ types = <<"map_enter", "state">>
           ELSE IF last_scene # REFUGE_SCENE /\ next_scene = REFUGE_SCENE
           THEN /\ event # NoValue
                /\ ~ValueOf(event).entering
                /\ types = <<"map_exit", "state">>
           ELSE /\ event = NoValue
                /\ w.state = state
                /\ w.heap = heap
                /\ w.out = <<>>

\* A reachable case of C29: the refuge was left for a league scene, which
\* was taken as entering, and the run is open.
EnteredFromRefuge ==
    /\ last.out = <<"map_enter", "state">>
    /\ state.is_in_map
    /\ state.current_map # NoMap
    /\ heap[state.current_map].is_league_zone

(***************************************************************************)
(* Properties of the derived totals of MapRun and Session.                 *)
(***************************************************************************)
\* The worlds whose runs and sessions are summed up: the state itself, the
\* state after a batch of two pick-ups, after a stack was used up, and
\* after a league zone was entered and left.
Ledgers ==
    {World,
     ProcessLogChunkW(World, <<ModFE, ModC>>, EnvAt(0)),
     ProcessLogChunkW(World, <<ModSpend>>, EnvAt(0)),
     ProcessLogChunkW(
        Returned(ProcessLogChunkW(World, <<EnterLeague>>, EnvAt(0))),
        <<ModC, ExitMap>>, EnvAt(0))}

\* The sum of f over the positions of a sequence.
SumAt(s, f(_)) == SumOver([i \in 1..Len(s) |-> f(s[i])], 1..Len(s))

\* C30: a MapRun's total_value is the sum of its drops' values with a null
\* value counted as 0, its total_items the sum of the positive quantities
\* only, its net_value total_value minus investment (one drop worth 100 and
\* investment 20 give 80); a Session's total value, investment and items
\* are the sums over its maps, and its map count counts the closed maps
\* that are not league zones.
TotalsAreSums ==
    /\ \A w \in Ledgers :
        /\ \A r \in DOMAIN w.heap :
            LET run == w.heap[r]
                worth(d) == IF d.value = NoValue THEN 0 ELSE ValueOf(d.value)
                gained(d) == IF d.quantity > 0 THEN d.quantity ELSE 0
            IN /\ run_total_value(run) = SumAt(run.drops, worth)
               /\ run_total_items(run) = SumAt(run.drops, gained)
               /\ run_net_value(run) = SumAt(run.drops, worth) - run.investment
        /\ LET session == w.state.current_session
               value(r) == run_total_value(w.heap[r])
               cost(r) == w.heap[r].investment
               items(r) == run_total_items(w.heap[r])
           IN /\ session_total_value(session, w.heap) = SumAt(session.maps, value)
              /\ session_total_investment(session, w.heap)
                    = SumAt(session.maps, cost)
              /\ session_total_items(session, w.heap) = SumAt(session.maps, items)
              /\ map_count(session, w.heap) =
                    Cardinality({i \in 1..Len(session.maps) :
                        /\ w.heap[session.maps[i]].ended_at # NoTime
                        /\ ~w.heap[session.maps[i]].is_league_zone})
    /\ run_net_value([MapRun(now, FALSE) EXCEPT
                         !.drops = <<Drop(ItemC, 1, now, Some(100))>>,
                         !.investment = 20,
                         !.ended_at = now]) = 80

\* A reachable case of C30: a closed map of the session holds a drop with a
\* value, and the open map one with a consumed quantity.
SessionWithValuedAndConsumed ==
    /\ state.current_session # NoSession
    /\ state.current_map # NoMap
    /\ \E d \in {heap[state.current_map].drops[k] :
                    k \in 1..Len(heap[state.current_map].drops)} :
        d.quantity < 0
    /\ session_total_value(state.current_session, heap) > 0
    /\ map_count(state.current_session, heap) > 0

(***************************************************************************)
(* Invariants of the session's map list.                                   *)
(***************************************************************************)
\* The chunks that hold no map exit.
NoExitChunks == {<<EnterMap>>, <<EnterLeague>>, <<ModC>>, <<EnterMap, ModC>>, DumpOk}

\* C31: every MapRun in the current Session's map list has its end time
\* set, none appears in the list twice, the open current MapRun is not in
\* the list, and nothing but a map-exit appends to the list.
MapListHoldsClosedRunsOnce ==
    LET maps == state.current_session.maps
    IN /\ \A i \in 1..Len(maps) : heap[maps[i]].ended_at # NoTime
       /\ \A i, j \in 1..Len(maps) : maps[i] = maps[j] => i = j
       /\ \A i \in 1..Len(maps) : maps[i] # state.current_map
       /\ \A chunk \in NoExitChunks :
            LET w == ProcessLogChunkW(World, chunk, EnvAt(0))
            IN Len(w.state.current_session.maps) = Len(maps)
       /\ Len(RequestInitializationW(World).state.current_session.maps)
            = Len(maps)

\* The searches whose effect on the drops is compared: one for the item of
\* the recorded drops, one for an item no drop holds.
DropSearches == {PriceC, PriceSearch(ItemGear, <<24>>)}

\* The engine as it is, and after a batch that records a drop of the pinned
\* currency and a drop of ItemC in the open map.
DropWorlds ==
    {World, Returned(ProcessLogChunkW(World, <<ModFE, ModC>>, EnvAt(0)))}

\* The drops of run `r` of `pre` are, in `post`, the first drops of run `q`,
\* with the same item id, quantity and timestamp.
DropsKept(pre, r, post, q) ==
    /\ q \in DOMAIN post.heap
    /\ Len(post.heap[q].drops) >= Len(pre.heap[r].drops)
    /\ \A k \in 1..Len(pre.heap[r].drops) :
         /\ post.heap[q].drops[k].item_id = pre.heap[r].drops[k].item_id
         /\ post.heap[q].drops[k].quantity = pre.heap[r].drops[k].quantity
         /\ post.heap[q].drops[k].timestamp = pre.heap[r].drops[k].timestamp

\* Every MapRun `pre` still refers to after the operation keeps its drops in
\* `post`: the runs of the map list stay at their positions, and the open
\* run is still the open run or, after a map exit, the last of the list.
RunsKept(pre, post) ==
    LET before == pre.state.current_session.maps
        after == post.state.current_session.maps
        cm == pre.state.current_map
    IN /\ Len(after) >= Len(before)
       /\ \A i \in 1..Len(before) : DropsKept(pre, before[i], post, after[i])
       /\ cm # NoMap =>
            IF post.state.is_in_map
            THEN DropsKept(pre, cm, post, post.state.current_map)
            ELSE /\ after # <<>>
                 /\ DropsKept(pre, cm, post, after[Len(after)])

\* The chunks that open no MapRun.
NoEnterChunks ==
    {<<ExitMap>>, <<ModC>>, <<PriceC>>, <<ExitMap, PriceC>>, <<ModFE, ModC>>,
     DumpOk}

\* C32: a Drop's item id, quantity and timestamp never change once it is
\* recorded, and processing a price search for item X keeps the number and
\* the order of the drops of every MapRun and the value of every Drop whose
\* item is not X.
DropsFixedButValue ==
    /\ \A chunk \in NoEnterChunks :
         RunsKept(World, ProcessLogChunkW(World, chunk, EnvAt(0)))
    /\ \A pre \in DropWorlds : \A search \in DropSearches :
         LET post == ProcessLogChunkW(pre, <<search>>, EnvAt(0))
         IN /\ DOMAIN post.heap = DOMAIN pre.heap
            /\ post.state = pre.state
            /\ \A r \in DOMAIN pre.heap :
                 /\ DropsKept(pre, r, post, r)
                 /\ Len(post.heap[r].drops) = Len(pre.heap[r].drops)
                 /\ \A k \in 1..Len(pre.heap[r].drops) :
                      pre.heap[r].drops[k].item_id # search.item_id
                        => post.heap[r].drops[k].value
                             = pre.heap[r].drops[k].value

\* A price search was just processed while a MapRun holds a valued drop of
\* the searched item.
PriceSearchWithDropHeld ==
    /\ "price_update" \in {last.out[i] : i \in 1..Len(last.out)}
    /\ \E r \in DOMAIN heap : \E k \in 1..Len(heap[r].drops) :
         /\ heap[r].drops[k].item_id = ItemC
         /\ heap[r].drops[k].value # NoValue

\* The inventories right after a baseline reset or an initialization: the
\* inventory of the state with its baseline reset, and the inventory each
\* dump installs when the engine commits it.
ResetPoints ==
    {BagResetBaseline(bag)}
      \cup {InitStage(World, dump).bag :
              dump \in {d \in Dumps : InitStage(World, d).out # <<>>}}

\* The per-item sum of what two successive calls report.
ReportedBy(r1, r2, id) == Get(r1.changes, id, 0) + Get(r2.changes, id, 0)

\* C33: over the process_modifications calls made on an initialized
\* inventory since the last baseline reset or initialization, the deltas
\* reported for an item sum to its current slot total minus its slot total
\* at the reset, so that no change is reported twice.
DeltasSumToChangeSinceReset ==
    \A bag0 \in {b \in ResetPoints : b.initialized} :
      \A b1, b2 \in ModBatches :
        LET r1 == BagProcessModifications(bag0, b1)
            r2 == BagProcessModifications(r1.bag, b2)
        IN \A id \in Items :
             ReportedBy(r1, r2, id)
               = Get(SlotTotals(r2.bag.slots), id, 0)
                   - Get(SlotTotals(bag0.slots), id, 0)

\* The per-item sum of the quantities of a sequence of drops.
RECURSIVE DroppedOf(_, _)
DroppedOf(drops, id) ==
    IF drops = <<>> THEN 0
    ELSE (IF Head(drops).item_id = id THEN Head(drops).quantity ELSE 0)
           + DroppedOf(Tail(drops), id)

\* The batches delivered inside the map that is opened afterwards.
LaterBatches == {<<ModC>>, <<ModFE, ModC>>, <<ModSpend>>}

PinnedCurrencyAlwaysOne ==
    /\ get_price(prices, FE) = Some(FIXED_PRICES[FE])
    /\ \A tax \in BOOLEAN :
         get_price_with_tax(prices, [config EXCEPT !.tax_enabled = tax], FE)
           = Some(1)

\* C36: between engine operations the in-map flag is true exactly when the
\* current MapRun is set, and whenever the current MapRun is set the current
\* Session is set, so that a map exit has a Session to append to.
InMapIffRunOpenInSession ==
    /\ state.is_in_map <=> state.current_map # NoMap
    /\ state.current_map # NoMap => state.current_session # NoSession

\* A second map of the Session was entered: a MapRun is open and the
\* Session's list holds the closed one.
RunOpenInSession ==
    /\ last.out = <<"map_enter", "state">>
    /\ state.is_in_map
    /\ state.current_map # NoMap
    /\ state.current_session # NoSession
    /\ Len(state.current_session.maps) = 1

\* C37: between engine operations the engine's initialized flag equals the
\* inventory's initialized flag, and the engine awaits initialization only
\* while it is not initialized.
InitializedFlagsAgree ==
    /\ state.is_initialized <=> bag.initialized
    /\ awaiting_init => ~state.is_initialized

\* Initialization was requested again in a Session that already holds a
\* closed map: the engine awaits the dump, neither flag set.
AwaitingWithClosedMap ==
    /\ awaiting_init
    /\ ~state.is_initialized
    /\ ~bag.initialized
    /\ Len(state.current_session.maps) = 1

\* C38: reset_session called while a MapRun is open discards that run: the
\* Session it persists holds the runs that were closed before, the open run
\* is not among them, and afterwards no run and no Session is current.
OpenRunDiscardedByReset ==
    state.current_map # NoMap =>
      LET cm == state.current_map
          old == state.current_session
          closed == SelectSeq(old.maps, LAMBDA r : r # cm)
          w == ResetSessionW(World, EnvAt(0))
      IN /\ w.state.current_map = NoMap
         /\ w.state.current_session = NoSession
         /\ old.id \in DOMAIN w.disk
         /\ w.disk[old.id].maps = [i \in 1..Len(closed) |-> heap[closed[i]]]

\* The scene-change records over the scenes of the model.
SceneRecords == {SceneChange(a, b) : a \in Scenes, b \in Scenes}

MapNotes(w) == SelectSeq(w.out, LAMBDA n : n.type \in {"map_enter", "map_exit"})

\* C39: process_log_chunk applies at most one map change per chunk, the one
\* the first scene-change record of the chunk decides: a chunk with a second
\* scene-change record, with or without a pick-up between the two, has the
\* effect of the chunk without it, also when the first record crosses no
\* refuge boundary and the second does.
FirstSceneRecordDecides ==
    \A first \in SceneRecords, second \in SceneRecords :
        LET one == ProcessLogChunkW(World, <<first>>, EnvAt(0))
            two == ProcessLogChunkW(World, <<first, second>>, EnvAt(0))
        IN /\ two = one
           /\ Len(MapNotes(two)) <= 1
           /\ ProcessLogChunkW(World, <<first, ModC, second>>, EnvAt(0))
                = ProcessLogChunkW(World, <<first, ModC>>, EnvAt(0))

\* A chunk holding a map enter followed by a map exit was processed: the
\* engine is in the map.
EnteredDespiteLaterExit ==
    /\ last.scenes = 2
    /\ last.out = <<"map_enter", "state">>
    /\ state.is_in_map
    /\ state.current_map # NoMap

\* The branch update_from_search takes for a batch of at least 5 samples:
\* whether the median of the absolute deviations is 0.
MadIsZero(b) ==
    LET sorted_prices == Sorted(b)
        m2 == Median2(sorted_prices)
    IN Median2(Sorted([i \in 1..Len(b) |-> Abs(2 * sorted_prices[i] - m2)])) = 0

\* C40: for every batch of at least 5 samples the outlier filter of
\* update_from_search retains at least half of the samples, never none, with
\* the MAD equal to 0 and above 0, so that the estimate is the mean of the
\* retained samples, never the fall-back median by default, and lies between
\* the smallest and the largest sample.
FilterRetainsAtLeastHalf ==
    \A item \in ((DOMAIN prices) \cup {ItemC}) \ DOMAIN FIXED_PRICES :
      \A b \in {x \in Batches : Len(x) >= 5} :
        LET kept == filtered_prices(b)
            q == SearchResult(item, b)
            values == {b[i] : i \in 1..Len(b)}
        IN /\ kept # <<>>
           /\ 2 * Len(kept) >= Len(b)
           /\ q = Ratio(SeqSum(kept), Len(kept))
           /\ \E lo \in values : \A v \in values : lo <= v /\ lo * q.den <= q.num
           /\ \E hi \in values : \A v \in values : v <= hi /\ q.num <= hi * q.den

\* Both branches of the filter occur among the batches.
FilterBranchesCovered ==
    /\ \E b \in Batches : Len(b) >= 5 /\ MadIsZero(b)
    /\ \E b \in Batches : Len(b) >= 5 /\ ~MadIsZero(b)
    /\ \E b \in Batches : Len(b) >= 5 /\ Len(filtered_prices(b)) < Len(b)

\* A search of five samples for the gear item, four of 16 and one of 800,
\* was processed: the 800 was filtered and the stored price is 16.
GearSearchFiltered ==
    /\ "price_update" \in {last.out[i] : i \in 1..Len(last.out)}
    /\ ItemGear \in DOMAIN prices
    /\ prices[ItemGear] = 16
    /\ filtered_prices(<<16, 16, 16, 16, 800>>) = <<16, 16, 16, 16>>
    /\ FilterBranchesCovered

====
